---- MODULE Spec2Model ----
(***************************************************************************)
(* Model of the image de-duplication, slideshow layout and caption         *)
(* segmentation code of src/app.py (generate_confirmation_route,           *)
(* download_image, generate_slideshow_video).                              *)
(*                                                                         *)
(* Three specifications share the module, one per piece of code:           *)
(*   SpecCaptions  - the caption loop of generate_slideshow_video          *)
(*   SpecDedup     - the download / de-duplication loop of /generate       *)
(*   SpecSlideshow - frame sizing, scheduling and placement                *)
(*                                                                         *)
(* Python floats are modelled by exact arithmetic: caption times are       *)
(* integers in tenths of a second, aspect ratios and frame times are       *)
(* reduced fractions <<numerator, denominator>>.                           *)
(***************************************************************************)
EXTENDS Integers, Sequences, FiniteSets, TLC

VARIABLES
    \* ---- caption loop (generate_slideshow_video, step 6)
    word_timestamps,      \* what get_word_timestamps returned
    cap_i,                \* number of words the loop has consumed
    segment_words,        \* words of the segment being built
    segment_start_time,   \* start of the segment being built
    text_clips_list,      \* caption clips created so far
    cap_pc,               \* "idle", "loop", "done", "failed"
    \* ---- de-duplication loop (generate_confirmation_route)
    num_urls,                   \* len(image_urls)
    video_type,                 \* request.form['video_type']
    dd_i,                       \* URLs processed so far
    downloaded_content_hashes,  \* set of content hashes
    downloaded_phashes,         \* list of perceptual hashes
    confirm_image_details,      \* accepted images, in order
    confirm_files,              \* files present in CONFIRM_FOLDER
    dd_last,                    \* the last iteration: download, decision, state before
    dd_served,                  \* what each URL processed so far served, in order
    dd_pc,                      \* "idle", "loop", "confirm", "redirect"
    \* ---- slideshow (generate_slideshow_video, steps 1-5 and 7-9)
    image_paths,          \* the files passed in
    audio,                \* NoAudio or the audio clip's duration in seconds
    aspect_ratios,        \* w/h of every valid image
    valid_image_paths,    \* indices into image_paths
    canvas,               \* <<W, H>>
    total_duration,       \* fraction, or NoAudio before step 2
    place_i,              \* placement loop: iterations done
    current_time,         \* placement loop: start of the next frame
    schedule,             \* (start_time, end_time) computed by each iteration
    clips,                \* image clips created
    ss_error,             \* None, or the message of the exception the function caught
    output_written,       \* whether a file exists at output_path
    transcript_words,     \* what get_word_timestamps returns for the audio file
    final_video,          \* None, or what write_videofile encoded
    ss_pc,                \* "idle", "analyze", "audio", "place", "write", "done", "failed"
    \* ---- talking-head generation (create_d_id_talk)
    talk_pc,              \* "idle", "create", "poll", "returned"
    talk_elapsed,         \* time.time() - start_time, in seconds
    talk_polls,           \* status requests sent
    talk_status,          \* None, or the status of the last answer
    talk_answered_at,     \* talk_elapsed when the last answer arrived
    talk_return,          \* None, or the dictionary returned
    \* ---- requests served in parallel (threads of one server process)
    req_pc,               \* per request: "generate", "create", "slideshow", "encoding", "cleanup", "done"
    req_hashes,           \* per request: its downloaded_content_hashes
    req_images,           \* per request: the image files it keeps
    req_audio,            \* per request: its voiceover file, or None
    req_open,             \* per request: the paths it is writing right now
    req_touched,          \* per request: every path it wrote or deleted
    uuid_count,           \* uuid4 values drawn so far
    \* ---- the routes of one browser session
    session,              \* the session cookie: confirm_data and confirm_images
    disk_files,           \* the files in the upload and generated folders
    route_uuid,           \* uuid4 values drawn by the routes so far
    response,             \* the last response sent
    last_request          \* what the last request saw and did

capVars == <<word_timestamps, cap_i, segment_words, segment_start_time,
             text_clips_list, cap_pc>>
ddVars  == <<num_urls, video_type, dd_i, downloaded_content_hashes,
             downloaded_phashes, confirm_image_details, confirm_files,
             dd_last, dd_served, dd_pc>>
ssVars  == <<image_paths, audio, aspect_ratios, valid_image_paths, canvas,
             total_duration, place_i, current_time, schedule, clips, ss_error,
             output_written, transcript_words, final_video, ss_pc>>
talkVars == <<talk_pc, talk_elapsed, talk_polls, talk_status, talk_answered_at,
              talk_return>>
reqVars == <<req_pc, req_hashes, req_images, req_audio, req_open, req_touched,
             uuid_count>>
routeVars == <<session, disk_files, route_uuid, response, last_request>>
extVars == <<talkVars, reqVars, routeVars>>
vars    == <<capVars, ddVars, ssVars, extVars>>

\* Python's None and a present value: the empty and the one-element sequence.
None == <<>>
Some(x) == <<x>>

(***************************************************************************)
(* Helpers                                                                 *)
(***************************************************************************)
RECURSIVE GCD(_, _)
GCD(a, b) == IF b = 0 THEN a ELSE GCD(b, a % b)

Abs(x) == IF x < 0 THEN -x ELSE x

Min2(a, b) == IF a <= b THEN a ELSE b

\* No image is served: the request failed, the content type is no image, or
\* the body is empty.
NotServed ==
    [served |-> FALSE, bytes |-> <<>>, phash |-> None, width |-> 0, height |-> 0,
     opens |-> FALSE]

\* dd_last before the first iteration of the de-duplication loop.
NotStarted ==
    [remote |-> NotServed,
     download |-> [absolute_path |-> 0, content_hash |-> None, p_hash_obj |-> None],
     decision |-> "NotStarted",
     hashes_before |-> {}, phashes_before |-> <<>>, details_before |-> <<>>]


(***************************************************************************)
(* CAPTION SEGMENTATION  (src/app.py 1005-1077)                            *)
(* Times are in tenths of a second.                                        *)
(***************************************************************************)
MaxWordCount == 5

caption_max_words_per_segment == 4

\* caption_max_duration_per_segment = 2.5 s, in tenths of a second
caption_max_duration_per_segment == 25

\* The words' texts, by position in the transcript.
Vocabulary == <<"Hello", "world", "this", "rocks", "now", "and", "then">>

\* Durations (end - start) a word may have.
WordDurations == {0, 4, 5, 17, 30}

\* <<gap, duration>> of a word: gap is its start minus the previous word's
\* end (the first word's start).  Most words follow the previous one at
\* once; one shape leaves a pause, one starts before the previous word ended.
WordShapes ==
    {<<0, d>> : d \in WordDurations} \cup {<<3, 4>>, <<-2, 4>>}

\* The transcripts of at most n words, each word of one of WordShapes; no
\* time is negative.
RECURSIVE Transcripts(_)
Transcripts(n) ==
    IF n = 0 THEN {<<>>}
    ELSE LET shorter == Transcripts(n - 1)
             PrevEnd(t) == IF n = 1 THEN 0 ELSE t[n - 1].end
             choices == {c \in shorter \X WordShapes :
                           /\ Len(c[1]) = n - 1
                           /\ PrevEnd(c[1]) + c[2][1] >= 0}
         IN shorter \cup
            { Append(c[1], [word  |-> Vocabulary[n],
                            start |-> PrevEnd(c[1]) + c[2][1],
                            end   |-> PrevEnd(c[1]) + c[2][1] + c[2][2]]) :
                c \in choices }

RECURSIVE JoinWords_NoSeparator(_)
JoinWords_NoSeparator(ws) ==
    IF Len(ws) = 0 THEN "" ELSE ws[1] \o JoinWords_NoSeparator(Tail(ws))

\* " ".join(words)
RECURSIVE JoinWords(_)
JoinWords(ws) ==
    IF Len(ws) = 0 THEN ""
    ELSE IF Len(ws) = 1 THEN ws[1]
    ELSE ws[1] \o " " \o JoinWords(Tail(ws))

SegmentStart_Stale(words_so_far, start, start_so_far) == start_so_far

\* `if not segment_words: segment_start_time = start` (lines 1021-1022).
SegmentStart(words_so_far, start, start_so_far) ==
    IF Len(words_so_far) = 0 THEN start ELSE start_so_far

SegmentCloses_NotAtLastWord(words_so_far, current_duration, is_last_word) ==
    \/ Len(words_so_far) >= caption_max_words_per_segment
    \/ current_duration >= caption_max_duration_per_segment

SegmentCloses_NoWordLimit(words_so_far, current_duration, is_last_word) ==
    \/ current_duration >= caption_max_duration_per_segment
    \/ is_last_word

\* The condition that closes the segment after the word was appended
\* (lines 1028-1030).
SegmentCloses(words_so_far, current_duration, is_last_word) ==
    \/ Len(words_so_far) >= caption_max_words_per_segment
    \/ current_duration >= caption_max_duration_per_segment
    \/ is_last_word

CapInit ==
    /\ word_timestamps \in Transcripts(MaxWordCount)
    /\ cap_i = 0
    /\ segment_words = <<>>
    /\ segment_start_time = 0
    /\ text_clips_list = <<>>
    /\ cap_pc = "loop"
    \* the de-duplication loop is idle
    /\ num_urls = 0
    /\ video_type = "product"
    /\ dd_i = 0
    /\ downloaded_content_hashes = {}
    /\ downloaded_phashes = <<>>
    /\ confirm_image_details = <<>>
    /\ confirm_files = {}
    /\ dd_last = NotStarted
    /\ dd_served = <<>>
    \* no talking-head generation
    /\ talk_pc = "idle"
    /\ talk_elapsed = 0
    /\ talk_polls = 0
    /\ talk_status = None
    /\ talk_answered_at = 0
    /\ talk_return = None
    \* no parallel requests
    /\ req_pc = <<>>
    /\ req_hashes = <<>>
    /\ req_images = <<>>
    /\ req_audio = <<>>
    /\ req_open = <<>>
    /\ req_touched = <<>>
    /\ uuid_count = 0
    \* no route has been requested
    /\ session = <<>>
    /\ disk_files = {}
    /\ route_uuid = 0
    /\ response = <<>>
    /\ last_request = <<>>
    /\ dd_pc = "idle"
    \* the slideshow is idle
    /\ image_paths = <<>>
    /\ audio = None
    /\ aspect_ratios = <<>>
    /\ valid_image_paths = <<>>
    /\ canvas = <<0, 0>>
    /\ total_duration = None
    /\ place_i = 0
    /\ current_time = <<0, 1>>
    /\ schedule = <<>>
    /\ clips = <<>>
    /\ ss_error = None
    /\ output_written = FALSE
    /\ transcript_words = <<>>
    /\ final_video = None
    /\ ss_pc = "idle"

CaptionSkip_Fails ==
    /\ cap_pc = "loop"
    /\ Len(word_timestamps) = 0
    /\ cap_pc' = "failed"
    /\ UNCHANGED <<word_timestamps, cap_i, segment_words, segment_start_time,
                   text_clips_list>>
    /\ UNCHANGED <<ddVars, ssVars, extVars>>

\* `if word_timestamps:` is false: no caption loop.
CaptionSkip ==
    /\ cap_pc = "loop"
    /\ Len(word_timestamps) = 0
    /\ cap_pc' = "done"
    /\ UNCHANGED <<word_timestamps, cap_i, segment_words, segment_start_time,
                   text_clips_list>>
    /\ UNCHANGED <<ddVars, ssVars, extVars>>

\* One iteration of `for i, word_info in enumerate(word_timestamps)`.
\* fallback: drawing the rounded background raised (lines 1051-1058).
CaptionWord(fallback) ==
    /\ cap_pc = "loop"
    /\ cap_i < Len(word_timestamps)
    /\ LET word_info == word_timestamps[cap_i + 1]
           seg_start == SegmentStart(segment_words, word_info.start,
                                     segment_start_time)
           ws == Append(segment_words, word_info.word)
           current_duration == word_info.end - seg_start
           is_last_word == (cap_i + 1 = Len(word_timestamps))
       IN /\ cap_i' = cap_i + 1
          /\ segment_start_time' = seg_start
          /\ IF SegmentCloses(ws, current_duration, is_last_word)
             THEN /\ text_clips_list' =
                        Append(text_clips_list,
                               [text |-> JoinWords(ws),
                                words |-> ws,
                                start |-> seg_start,
                                duration |-> word_info.end - seg_start,
                                fallback |-> fallback])
                  /\ segment_words' = <<>>
             ELSE /\ fallback = FALSE
                  /\ text_clips_list' = text_clips_list
                  /\ segment_words' = ws
          /\ cap_pc' = IF is_last_word THEN "done" ELSE "loop"
    /\ UNCHANGED word_timestamps
    /\ UNCHANGED <<ddVars, ssVars, extVars>>

\* An iteration that closes a segment fails: a TextClip call outside the
\* inner try (lines 1054, 1060) raised, no clip is appended and the
\* function's outer `except` returns False.
CaptionFail ==
    /\ cap_pc = "loop"
    /\ cap_i < Len(word_timestamps)
    /\ LET word_info == word_timestamps[cap_i + 1]
           seg_start == SegmentStart(segment_words, word_info.start,
                                     segment_start_time)
           ws == Append(segment_words, word_info.word)
       IN /\ SegmentCloses(ws, word_info.end - seg_start,
                           cap_i + 1 = Len(word_timestamps))
          /\ cap_i' = cap_i + 1
          /\ segment_start_time' = seg_start
          /\ segment_words' = ws
    /\ cap_pc' = "failed"
    /\ UNCHANGED <<word_timestamps, text_clips_list>>
    /\ UNCHANGED <<ddVars, ssVars, extVars>>

CapNext ==
    \/ CaptionSkip
    \/ \E fallback \in BOOLEAN : CaptionWord(fallback)
    \/ CaptionFail

SpecCaptions ==
    /\ CapInit
    /\ [][CapNext]_vars

(***************************************************************************)
(* IMAGE DE-DUPLICATION  (src/app.py 727-778, 1189-1304)                   *)
(***************************************************************************)
MaxUrls == 4

MAX_PRODUCT_IMAGES == 12

PHASH_THRESHOLD == 5

\* Bits of an imagehash.phash value (hash_size 8: 8 x 8 bits).
PHashBits == 64

\* A perceptual hash is the set of its 1-bits; subtracting two ImageHash
\* objects counts the bits in which they differ.
Hamming(p, q) == Cardinality((p \ q) \cup (q \ p))

\* hashlib.sha256(image_content).hexdigest(): one digest per byte string.
SHA256(bytes) == <<"sha256", bytes>>

\* What an image URL may serve.  phash is None when PIL cannot decode the
\* pixels; opens is whether Image.open on the saved file yields a size.
RemoteImages ==
    { [served |-> TRUE, bytes |-> <<1>>, phash |-> Some({}),
       width |-> 800, height |-> 800, opens |-> TRUE],
      [served |-> TRUE, bytes |-> <<2>>, phash |-> Some(1..5),
       width |-> 800, height |-> 800, opens |-> TRUE],
      [served |-> TRUE, bytes |-> <<3>>, phash |-> Some(1..6),
       width |-> 800, height |-> 800, opens |-> TRUE],
      [served |-> TRUE, bytes |-> <<4>>, phash |-> Some(20..40),
       width |-> 399, height |-> 800, opens |-> TRUE],
      [served |-> TRUE, bytes |-> <<5>>, phash |-> None,
       width |-> 800, height |-> 800, opens |-> TRUE],
      [served |-> TRUE, bytes |-> <<6>>, phash |-> Some(41..PHashBits),
       width |-> 400, height |-> 400, opens |-> TRUE],
      [served |-> TRUE, bytes |-> <<7>>, phash |-> None,
       width |-> 0, height |-> 0, opens |-> FALSE],
      [served |-> TRUE, bytes |-> <<8>>, phash |-> Some({1}),
       width |-> 100, height |-> 100, opens |-> TRUE] }

UrlContents == RemoteImages \cup {NotServed}

\* download_image(url, save_dir) for the i-th URL: (path, content hash,
\* perceptual hash), or three Nones.  The file name holds a fresh uuid, so
\* the path is a new one: the URL's position (from 1) stands for it, and 0
\* for no path.
download_image(remote, i) ==
    IF ~remote.served
    THEN [absolute_path |-> 0, content_hash |-> None, p_hash_obj |-> None]
    ELSE [absolute_path |-> i, content_hash |-> Some(SHA256(remote.bytes)),
          p_hash_obj |-> remote.phash]

IsExactDuplicate_Never(content_hash, seen_hashes) == FALSE

\* Check 1 (line 1212).
IsExactDuplicate(content_hash, seen_hashes) == content_hash \in seen_hashes

WithinThreshold_Strict(distance) == distance < PHASH_THRESHOLD

\* distance <= PHASH_THRESHOLD (line 1221).
WithinThreshold(distance) == distance <= PHASH_THRESHOLD

IsVisualDuplicate_LastOnly(p_hash_obj, seen_phashes) ==
    /\ p_hash_obj # None
    /\ Len(seen_phashes) > 0
    /\ WithinThreshold(Hamming(p_hash_obj[1], seen_phashes[Len(seen_phashes)]))

\* Check 2 (lines 1216-1228).
IsVisualDuplicate(p_hash_obj, seen_phashes) ==
    /\ p_hash_obj # None
    /\ \E k \in DOMAIN seen_phashes :
          WithinThreshold(Hamming(p_hash_obj[1], seen_phashes[k]))

min_dimension == 400

SizeOk_AnySize(remote) == remote.opens

\* The size check (lines 1232-1254): False when the file cannot be opened.
SizeOk(remote) ==
    /\ remote.opens
    /\ ~(remote.width < min_dimension \/ remote.height < min_dimension)

\* The branch one iteration of the loop takes.
Decision(remote, dl, seen_hashes, seen_phashes) ==
    IF ~(dl.absolute_path # 0 /\ dl.content_hash # None) THEN "DownloadFailed"
    ELSE IF IsExactDuplicate(dl.content_hash, seen_hashes) THEN "RejectExactDuplicate"
    ELSE IF IsVisualDuplicate(dl.p_hash_obj, seen_phashes) THEN "RejectVisualDuplicate"
    ELSE IF ~SizeOk(remote) THEN "RejectTooSmall"
    ELSE "Accept"

AddPHash_Never(seen_phashes, p_hash_obj) == seen_phashes

\* `if p_hash_obj is not None: downloaded_phashes.append(p_hash_obj)`
\* (lines 1260-1261).
AddPHash(seen_phashes, p_hash_obj) ==
    IF p_hash_obj # None THEN Append(seen_phashes, p_hash_obj[1])
    ELSE seen_phashes

UrlsToProcess_All == num_urls

\* urls_to_process = image_urls[:MAX_PRODUCT_IMAGES]
UrlsToProcess == Min2(num_urls, MAX_PRODUCT_IMAGES)

DdInit ==
    /\ num_urls \in 0..MaxUrls
    /\ video_type \in {"product", "avatar"}
    /\ dd_i = 0
    /\ downloaded_content_hashes = {}
    /\ downloaded_phashes = <<>>
    /\ confirm_image_details = <<>>
    /\ confirm_files = {}
    /\ dd_last = NotStarted
    /\ dd_served = <<>>
    \* no talking-head generation
    /\ talk_pc = "idle"
    /\ talk_elapsed = 0
    /\ talk_polls = 0
    /\ talk_status = None
    /\ talk_answered_at = 0
    /\ talk_return = None
    \* no parallel requests
    /\ req_pc = <<>>
    /\ req_hashes = <<>>
    /\ req_images = <<>>
    /\ req_audio = <<>>
    /\ req_open = <<>>
    /\ req_touched = <<>>
    /\ uuid_count = 0
    \* no route has been requested
    /\ session = <<>>
    /\ disk_files = {}
    /\ route_uuid = 0
    /\ response = <<>>
    /\ last_request = <<>>
    /\ dd_pc = "loop"
    \* the caption loop is idle
    /\ word_timestamps = <<>>
    /\ cap_i = 0
    /\ segment_words = <<>>
    /\ segment_start_time = 0
    /\ text_clips_list = <<>>
    /\ cap_pc = "idle"
    \* the slideshow is idle
    /\ image_paths = <<>>
    /\ audio = None
    /\ aspect_ratios = <<>>
    /\ valid_image_paths = <<>>
    /\ canvas = <<0, 0>>
    /\ total_duration = None
    /\ place_i = 0
    /\ current_time = <<0, 1>>
    /\ schedule = <<>>
    /\ clips = <<>>
    /\ ss_error = None
    /\ output_written = FALSE
    /\ transcript_words = <<>>
    /\ final_video = None
    /\ ss_pc = "idle"

\* One iteration of `for i, img_url in enumerate(urls_to_process)`, the URL
\* serving `remote`.
ProcessUrl(remote) ==
    /\ dd_pc = "loop"
    /\ dd_i < UrlsToProcess
    /\ LET i == dd_i + 1
           dl == download_image(remote, i)
           decision == Decision(remote, dl, downloaded_content_hashes,
                                downloaded_phashes)
       IN /\ dd_i' = i
          /\ dd_served' = Append(dd_served, remote)
          /\ dd_last' = [remote |-> remote, download |-> dl, decision |-> decision,
                         hashes_before |-> downloaded_content_hashes,
                         phashes_before |-> downloaded_phashes,
                         details_before |-> confirm_image_details]
          /\ IF decision = "Accept"
             THEN /\ downloaded_content_hashes' =
                        downloaded_content_hashes \cup {dl.content_hash}
                  /\ downloaded_phashes' =
                        AddPHash(downloaded_phashes, dl.p_hash_obj)
                  /\ confirm_image_details' =
                        Append(confirm_image_details,
                               [absolute_path |-> dl.absolute_path,
                                hash |-> dl.content_hash,
                                phash |-> dl.p_hash_obj,
                                width |-> remote.width,
                                height |-> remote.height])
             ELSE UNCHANGED <<downloaded_content_hashes, downloaded_phashes,
                              confirm_image_details>>
          \* the download writes the file, every rejection removes it again
          \* (an os.remove that fails is only logged; not modelled)
          /\ confirm_files' =
                IF decision = "Accept" THEN confirm_files \cup {dl.absolute_path}
                ELSE confirm_files
    /\ UNCHANGED <<num_urls, video_type, dd_pc>>
    /\ UNCHANGED <<capVars, ssVars, extVars>>

\* After the loop (lines 1289-1304): redirect to the form when a product
\* video has no image, else store the session and render the confirmation.
DedupFinish ==
    /\ dd_pc = "loop"
    /\ dd_i = UrlsToProcess
    /\ dd_pc' = IF Len(confirm_image_details) = 0 /\ video_type = "product"
                THEN "redirect" ELSE "confirm"
    /\ UNCHANGED <<num_urls, video_type, dd_i, downloaded_content_hashes,
                   downloaded_phashes, confirm_image_details, confirm_files,
                   dd_last, dd_served>>
    /\ UNCHANGED <<capVars, ssVars, extVars>>

DdNext ==
    \/ \E remote \in UrlContents : ProcessUrl(remote)
    \/ DedupFinish

SpecDedup ==
    /\ DdInit
    /\ [][DdNext]_vars

(***************************************************************************)
(* SLIDESHOW: FRAME SIZE, SCHEDULE, PLACEMENT  (src/app.py 839-1003)       *)
(* A fraction is <<numerator, denominator>>, denominator > 0, reduced.     *)
(***************************************************************************)
Frac(n, d) == LET g == GCD(Abs(n), d) IN IF g = 0 THEN <<0, 1>> ELSE <<n \div g, d \div g>>

FracOfInt(n) == <<n, 1>>

FracAdd(a, b) ==
    LET l == (a[2] * b[2]) \div GCD(a[2], b[2])
    IN Frac(a[1] * (l \div a[2]) + b[1] * (l \div b[2]), l)

FracSub(a, b) == FracAdd(a, <<-b[1], b[2]>>)

FracAbs(a) == <<Abs(a[1]), a[2]>>

FracLess(a, b) == a[1] * b[2] < b[1] * a[2]

FracMin(a, b) == IF FracLess(b, a) THEN b ELSE a

\* a / n, n a positive integer
FracDivInt(a, n) == Frac(a[1], a[2] * n)

\* n / a, n an integer, a > 0
IntDivFrac(n, a) == Frac(n * a[2], a[1])

FracMulInt(a, n) == Frac(a[1] * n, a[2])

\* int(x) for x >= 0
FracInt(a) == a[1] \div a[2]

RECURSIVE FracSum(_)
FracSum(fs) == IF Len(fs) = 0 THEN <<0, 1>> ELSE FracAdd(fs[1], FracSum(Tail(fs)))

MaxImages == 3

DEFAULT_W == 1920
DEFAULT_H == 1080
PORTRAIT_W == 1080
PORTRAIT_H == 1920
SQUARE_W == 1440
SQUARE_H == 1440

seconds_per_image == 3

\* Image files.  opens: Image.open yields a size (step 1); decodes: the pixel
\* data loads, so that convert("RGB") succeeds (step 4).
ImageFile(w, h, opens, decodes) ==
    [width |-> w, height |-> h, opens |-> opens, decodes |-> decodes]

ImageFiles ==
    { ImageFile(1920, 1080, TRUE, TRUE),    \* 16:9
      ImageFile(1080, 1920, TRUE, TRUE),    \* 9:16
      ImageFile(800, 1000, TRUE, TRUE),     \* aspect 0.8
      ImageFile(1200, 1000, TRUE, TRUE),    \* aspect 1.2
      ImageFile(1010, 1000, TRUE, TRUE),    \* aspect 1.01
      ImageFile(3000, 1, TRUE, TRUE),       \* a very wide strip
      ImageFile(1, 3000, TRUE, TRUE),       \* a very tall strip
      ImageFile(0, 1000, TRUE, TRUE),       \* a zero dimension
      ImageFile(0, 0, FALSE, FALSE),        \* not an image
      ImageFile(1920, 1080, TRUE, FALSE) }  \* truncated pixel data

\* Durations, in seconds, of the audio clips.
AudioDurations == {0, 10}

RECURSIVE ImageLists(_)
ImageLists(n) ==
    IF n = 0 THEN {<<>>}
    ELSE LET shorter == ImageLists(n - 1)
         IN shorter \cup
            { Append(l, f) : l \in {t \in shorter : Len(t) = n - 1}, f \in ImageFiles }

\* `w > 0 and h > 0` on an image that opened (lines 883-885).
IsValidImage(f) == f.opens /\ f.width > 0 /\ f.height > 0

RECURSIVE ValidFrom_StopAtFirstBad(_, _)
ValidFrom_StopAtFirstBad(paths, k) ==
    IF k > Len(paths) \/ ~IsValidImage(paths[k]) THEN <<>>
    ELSE <<k>> \o ValidFrom_StopAtFirstBad(paths, k + 1)

\* Step 1, the loop of lines 881-891 over paths[k..]: the indices of the
\* valid images.
RECURSIVE ValidFrom(_, _)
ValidFrom(paths, k) ==
    IF k > Len(paths) THEN <<>>
    ELSE IF IsValidImage(paths[k]) THEN <<k>> \o ValidFrom(paths, k + 1)
    ELSE ValidFrom(paths, k + 1)

AspectOf(f) == Frac(f.width, f.height)

RECURSIVE AspectsOf(_, _)
AspectsOf(paths, valid) ==
    IF Len(valid) = 0 THEN <<>>
    ELSE <<AspectOf(paths[valid[1]])>> \o AspectsOf(paths, Tail(valid))

IsPortraitMean_OrEqual(avg_aspect) == ~FracLess(<<4, 5>>, avg_aspect)

\* avg_aspect < 0.8 (line 899)
IsPortraitMean(avg_aspect) == FracLess(avg_aspect, <<4, 5>>)

\* avg_aspect > 1.2 (line 900)
IsLandscapeMean(avg_aspect) == FracLess(<<6, 5>>, avg_aspect)

\* Lines 893-901.
ChooseCanvas(ratios) ==
    IF Len(ratios) = 0 THEN <<DEFAULT_W, DEFAULT_H>>
    ELSE LET avg_aspect == FracDivInt(FracSum(ratios), Len(ratios))
         IN IF IsPortraitMean(avg_aspect) THEN <<PORTRAIT_W, PORTRAIT_H>>
            ELSE IF IsLandscapeMean(avg_aspect) THEN <<DEFAULT_W, DEFAULT_H>>
            ELSE <<SQUARE_W, SQUARE_H>>

\* abs(img_aspect - target_aspect) < 0.01 (line 950)
AspectMatches(img_aspect, target_aspect) ==
    FracLess(FracAbs(FracSub(img_aspect, target_aspect)), <<1, 100>>)

\* Image.resize raises ValueError unless both sides are at least 1.
ResizeOk(new_width, new_height) == new_width >= 1 /\ new_height >= 1

WiderSize_CropFill(W, H, img_aspect) == <<FracInt(FracMulInt(img_aspect, H)), H>>

\* Wider image: new_width, new_height (lines 959-960).
WiderSize(W, H, img_aspect) == <<W, FracInt(IntDivFrac(W, img_aspect))>>

\* Taller image: new_width, new_height (lines 968-969).
TallerSize(W, H, img_aspect) == <<FracInt(FracMulInt(img_aspect, H)), H>>

PasteOffset_NoHalving(frame_side, new_side) == frame_side - new_side

\* paste_y, paste_x (lines 963, 972)
PasteOffset(frame_side, new_side) == (frame_side - new_side) \div 2

\* Lines 944-975: the placement of a w x h image on the W x H frame.
\* size is the size of final_img_pil; the resized image, new_width x
\* new_height, is pasted at (paste_x, paste_y).
PlaceOnCanvas(w, h, W, H) ==
    LET img_aspect == Frac(w, h)
        target_aspect == Frac(W, H)
    IN IF AspectMatches(img_aspect, target_aspect)
       THEN [ok |-> TRUE, mode |-> "resize", new_width |-> W, new_height |-> H,
             paste_x |-> 0, paste_y |-> 0, size |-> <<W, H>>]
       ELSE IF FracLess(target_aspect, img_aspect)
       THEN LET new == WiderSize(W, H, img_aspect)
            IN [ok |-> ResizeOk(new[1], new[2]), mode |-> "pad_height",
                new_width |-> new[1], new_height |-> new[2],
                paste_x |-> 0, paste_y |-> PasteOffset(H, new[2]), size |-> <<W, H>>]
       ELSE LET new == TallerSize(W, H, img_aspect)
            IN [ok |-> ResizeOk(new[1], new[2]), mode |-> "pad_width",
                new_width |-> new[1], new_height |-> new[2],
                paste_x |-> PasteOffset(W, new[1]), paste_y |-> 0, size |-> <<W, H>>]

\* total_duration when no audio is supplied (line 922)
SilentDuration(paths) == FracOfInt(seconds_per_image * Len(paths))

BaseImageDuration_AllPaths(total, num_images) == FracDivInt(total, num_images + 1)

\* base_image_duration (line 928)
BaseImageDuration(total, num_images) == FracDivInt(total, num_images)

IsZeroDuration_Never(duration) == FALSE

\* `if duration <= 0: continue` (line 939)
IsZeroDuration(duration) == ~FracLess(<<0, 1>>, duration)

\* end_time (line 937), i counted from 0
EndTime(i, num_images, start_time, base_image_duration, total) ==
    IF i < num_images - 1
    THEN FracMin(FracAdd(start_time, base_image_duration), total)
    ELSE total

SsInit ==
    /\ image_paths \in ImageLists(MaxImages)
    /\ audio \in {None} \cup {Some(t) : t \in AudioDurations}
    /\ aspect_ratios = <<>>
    /\ valid_image_paths = <<>>
    /\ canvas = <<0, 0>>
    /\ total_duration = None
    /\ place_i = 0
    /\ current_time = <<0, 1>>
    /\ schedule = <<>>
    /\ clips = <<>>
    /\ ss_error = None
    /\ output_written = FALSE
    /\ transcript_words = <<>>
    /\ final_video = None
    /\ ss_pc = "analyze"
    \* the caption loop is idle
    /\ word_timestamps = <<>>
    /\ cap_i = 0
    /\ segment_words = <<>>
    /\ segment_start_time = 0
    /\ text_clips_list = <<>>
    /\ cap_pc = "idle"
    \* the de-duplication loop is idle
    /\ num_urls = 0
    /\ video_type = "product"
    /\ dd_i = 0
    /\ downloaded_content_hashes = {}
    /\ downloaded_phashes = <<>>
    /\ confirm_image_details = <<>>
    /\ confirm_files = {}
    /\ dd_last = NotStarted
    /\ dd_served = <<>>
    \* no talking-head generation
    /\ talk_pc = "idle"
    /\ talk_elapsed = 0
    /\ talk_polls = 0
    /\ talk_status = None
    /\ talk_answered_at = 0
    /\ talk_return = None
    \* no parallel requests
    /\ req_pc = <<>>
    /\ req_hashes = <<>>
    /\ req_images = <<>>
    /\ req_audio = <<>>
    /\ req_open = <<>>
    /\ req_touched = <<>>
    /\ uuid_count = 0
    \* no route has been requested
    /\ session = <<>>
    /\ disk_files = {}
    /\ route_uuid = 0
    /\ response = <<>>
    /\ last_request = <<>>
    /\ dd_pc = "idle"

\* Step 1 (lines 877-903).
Analyze ==
    /\ ss_pc = "analyze"
    /\ LET valid == ValidFrom(image_paths, 1)
           ratios == AspectsOf(image_paths, valid)
       IN /\ valid_image_paths' = valid
          /\ aspect_ratios' = ratios
          /\ canvas' = ChooseCanvas(ratios)
    /\ ss_pc' = "audio"
    /\ UNCHANGED <<image_paths, audio, total_duration, place_i, current_time,
                   schedule, clips, ss_error, output_written, transcript_words,
                   final_video>>
    /\ UNCHANGED <<capVars, ddVars, extVars>>

\* Step 2 and the check of line 927.
LoadAudio ==
    /\ ss_pc = "audio"
    /\ total_duration' =
          IF audio # None THEN Some(FracOfInt(audio[1]))
          ELSE Some(SilentDuration(image_paths))
    /\ ss_pc' = IF Len(valid_image_paths) = 0 THEN "failed" ELSE "place"
    /\ ss_error' = IF Len(valid_image_paths) = 0
                   THEN Some("No valid images provided for slideshow.")
                   ELSE ss_error
    \* word_timestamps = get_word_timestamps(audio_path), or [] without audio
    /\ word_timestamps' = IF audio # None THEN transcript_words ELSE <<>>
    /\ UNCHANGED <<image_paths, audio, aspect_ratios, valid_image_paths, canvas,
                   place_i, current_time, schedule, clips, output_written,
                   transcript_words, final_video>>
    /\ UNCHANGED <<cap_i, segment_words, segment_start_time, text_clips_list, cap_pc>>
    /\ UNCHANGED <<ddVars, extVars>>

\* One iteration of the loop of lines 934-994.
PlaceImage ==
    /\ ss_pc = "place"
    /\ place_i < Len(valid_image_paths)
    /\ LET i == place_i
           num_images == Len(valid_image_paths)
           img == image_paths[valid_image_paths[i + 1]]
           total == total_duration[1]
           start_time == current_time
           end_time == EndTime(i, num_images, start_time,
                               BaseImageDuration(total, num_images), total)
           duration == FracSub(end_time, start_time)
           placed == PlaceOnCanvas(img.width, img.height, canvas[1], canvas[2])
           outcome == IF IsZeroDuration(duration) THEN "zero_duration"
                      ELSE IF ~img.decodes THEN "open_failed"
                      ELSE IF ~placed.ok THEN "resize_failed"
                      ELSE "placed"
       IN /\ place_i' = i + 1
          /\ schedule' = Append(schedule,
                                [start_time |-> start_time, end_time |-> end_time,
                                 outcome |-> outcome])
          /\ clips' = IF outcome = "placed"
                      THEN Append(clips, [index |-> i, start |-> start_time,
                                          duration |-> duration, placed |-> placed])
                      ELSE clips
          \* `continue` skips the assignment of line 994
          /\ current_time' = IF outcome = "zero_duration" THEN current_time
                             ELSE end_time
    /\ UNCHANGED <<image_paths, audio, aspect_ratios, valid_image_paths, canvas,
                   total_duration, ss_error, output_written, transcript_words,
                   final_video, ss_pc>>
    /\ UNCHANGED <<capVars, ddVars, extVars>>

\* Line 996 and step 5.
Concatenate ==
    /\ ss_pc = "place"
    /\ place_i = Len(valid_image_paths)
    /\ ss_pc' = IF Len(clips) = 0 THEN "failed" ELSE "write"
    /\ ss_error' = IF Len(clips) = 0
                   THEN Some("No valid image clips could be created.")
                   ELSE ss_error
    /\ UNCHANGED <<image_paths, audio, aspect_ratios, valid_image_paths, canvas,
                   total_duration, place_i, current_time, schedule, clips,
                   output_written, transcript_words, final_video>>
    \* step 6 follows: the caption loop starts
    /\ cap_pc' = IF Len(clips) = 0 THEN cap_pc ELSE "loop"
    /\ UNCHANGED <<word_timestamps, cap_i, segment_words, segment_start_time,
                   text_clips_list>>
    /\ UNCHANGED <<ddVars, extVars>>

\* Steps 7-9, after the caption step ended: compositing (lines 1079-1087)
\* and encoding.  Any exception of steps 5 to 9, the caption loop's
\* included, makes the function return False, and the encoder may have left
\* a file behind.
WriteVideo(success) ==
    /\ ss_pc = "write"
    /\ cap_pc \in {"done", "failed"}
    /\ cap_pc = "failed" => ~success
    /\ ss_pc' = IF success THEN "done" ELSE "failed"
    /\ ss_error' = IF success THEN ss_error ELSE Some("exception in steps 5 to 9")
    /\ output_written' \in IF success THEN {TRUE} ELSE BOOLEAN
    /\ final_video' =
          IF success
          THEN Some([frames |-> clips, captions |-> text_clips_list,
                     audio |-> audio, duration |-> total_duration[1]])
          ELSE None
    /\ UNCHANGED <<image_paths, audio, aspect_ratios, valid_image_paths, canvas,
                   total_duration, place_i, current_time, schedule, clips,
                   transcript_words>>
    /\ UNCHANGED <<capVars, ddVars, extVars>>

SsNext ==
    \/ Analyze
    \/ LoadAudio
    \/ PlaceImage
    \/ Concatenate
    \/ CaptionSkip
    \/ \E success \in BOOLEAN : WriteVideo(success)

SpecSlideshow ==
    /\ SsInit
    /\ [][SsNext]_vars

(***************************************************************************)
(* SLIDESHOW WITH CAPTIONS: steps 1-9 on a few images, the transcription   *)
(* returning nothing or a short transcript  (src/app.py 839-1108)          *)
(***************************************************************************)
MaxAssemblyWords == 2

\* The image lists of the assembly runs: one or two files, a good image and
\* possibly a file that is no image.
AssemblyImageLists ==
    LET good == ImageFile(1920, 1080, TRUE, TRUE)
        bad  == ImageFile(0, 0, FALSE, FALSE)
    IN {<<good>>, <<bad>>, <<good, good>>, <<bad, good>>, <<good, bad>>}

AssemblyInit ==
    /\ image_paths \in AssemblyImageLists
    /\ audio \in {None, Some(10)}
    /\ transcript_words \in Transcripts(MaxAssemblyWords)
    /\ aspect_ratios = <<>>
    /\ valid_image_paths = <<>>
    /\ canvas = <<0, 0>>
    /\ total_duration = None
    /\ place_i = 0
    /\ current_time = <<0, 1>>
    /\ schedule = <<>>
    /\ clips = <<>>
    /\ ss_error = None
    /\ output_written = FALSE
    /\ final_video = None
    /\ ss_pc = "analyze"
    \* text_clips_list = [] (line 874); the caption loop has not started
    /\ word_timestamps = <<>>
    /\ cap_i = 0
    /\ segment_words = <<>>
    /\ segment_start_time = 0
    /\ text_clips_list = <<>>
    /\ cap_pc = "idle"
    \* the de-duplication loop is idle
    /\ num_urls = 0
    /\ video_type = "product"
    /\ dd_i = 0
    /\ downloaded_content_hashes = {}
    /\ downloaded_phashes = <<>>
    /\ confirm_image_details = <<>>
    /\ confirm_files = {}
    /\ dd_last = NotStarted
    /\ dd_served = <<>>
    \* no talking-head generation
    /\ talk_pc = "idle"
    /\ talk_elapsed = 0
    /\ talk_polls = 0
    /\ talk_status = None
    /\ talk_answered_at = 0
    /\ talk_return = None
    \* no parallel requests
    /\ req_pc = <<>>
    /\ req_hashes = <<>>
    /\ req_images = <<>>
    /\ req_audio = <<>>
    /\ req_open = <<>>
    /\ req_touched = <<>>
    /\ uuid_count = 0
    \* no route has been requested
    /\ session = <<>>
    /\ disk_files = {}
    /\ route_uuid = 0
    /\ response = <<>>
    /\ last_request = <<>>
    /\ dd_pc = "idle"

AssemblyNext ==
    \/ Analyze
    \/ LoadAudio
    \/ PlaceImage
    \/ Concatenate
    \/ CaptionSkip
    \/ \E fallback \in BOOLEAN : CaptionWord(fallback)
    \/ CaptionFail
    \/ \E success \in BOOLEAN : WriteVideo(success)

SpecAssembly ==
    /\ AssemblyInit
    /\ [][AssemblyNext]_vars

(***************************************************************************)
(* TALKING-HEAD GENERATION  (src/app.py 616-708)                           *)
(* Times are in seconds.                                                   *)
(***************************************************************************)
timeout_seconds == 300

poll_sleep_seconds == 5

\* Seconds a status request may take; requests.get has timeout=15.
RequestSeconds == {0, 1, 15}

\* What a status request may bring: an HTTP or network error (raises), or a
\* JSON body with a status and possibly a result_url.
StatusAnswers ==
    { [raises |-> TRUE,  status |-> "",         result_url |-> None],
      [raises |-> FALSE, status |-> "created",  result_url |-> None],
      [raises |-> FALSE, status |-> "started",  result_url |-> None],
      [raises |-> FALSE, status |-> "done",     result_url |-> Some("https://d-id/talk.mp4")],
      [raises |-> FALSE, status |-> "done",     result_url |-> None],
      [raises |-> FALSE, status |-> "error",    result_url |-> None],
      [raises |-> FALSE, status |-> "rejected", result_url |-> None] }

\* The dictionaries create_d_id_talk returns.
ResultUrl(url) == [result_url |-> Some(url), error |-> None]
Error(message) == [result_url |-> None, error |-> Some(message)]

WithinTimeout_OrEqual(elapsed) == elapsed <= timeout_seconds

\* The loop condition `time.time() - start_time < timeout_seconds` (line 668).
WithinTimeout(elapsed) == elapsed < timeout_seconds

AfterSleep_NoSleep(now) == now

\* time.sleep(5) (line 687)
AfterSleep(now) == now + poll_sleep_seconds

\* `elif status in ['created', 'started']` (line 686): sleep and poll again.
KeepsPolling(answer) ==
    /\ ~answer.raises
    /\ answer.status \in {"created", "started"}

\* The dictionary an answer that ends the polling makes the function return
\* (lines 670, 676-685, 688-689, 693-708).
ReturnFor(answer) ==
    IF answer.raises THEN Error("D-ID API request failed")
    ELSE IF answer.status = "done"
         THEN IF answer.result_url # None THEN ResultUrl(answer.result_url[1])
              ELSE Error("D-ID talk finished but no result URL found.")
    ELSE IF answer.status = "error" THEN Error("D-ID video generation failed")
    ELSE Error("Unexpected D-ID status")

TalkInit ==
    /\ talk_pc = "create"
    /\ talk_elapsed = 0
    /\ talk_polls = 0
    /\ talk_status = None
    /\ talk_answered_at = 0
    /\ talk_return = None
    \* no parallel requests
    /\ req_pc = <<>>
    /\ req_hashes = <<>>
    /\ req_images = <<>>
    /\ req_audio = <<>>
    /\ req_open = <<>>
    /\ req_touched = <<>>
    /\ uuid_count = 0
    \* no route has been requested
    /\ session = <<>>
    /\ disk_files = {}
    /\ route_uuid = 0
    /\ response = <<>>
    /\ last_request = <<>>
    \* the caption loop is idle
    /\ word_timestamps = <<>>
    /\ cap_i = 0
    /\ segment_words = <<>>
    /\ segment_start_time = 0
    /\ text_clips_list = <<>>
    /\ cap_pc = "idle"
    \* the de-duplication loop is idle
    /\ num_urls = 0
    /\ video_type = "product"
    /\ dd_i = 0
    /\ downloaded_content_hashes = {}
    /\ downloaded_phashes = <<>>
    /\ confirm_image_details = <<>>
    /\ confirm_files = {}
    /\ dd_last = NotStarted
    /\ dd_served = <<>>
    /\ dd_pc = "idle"
    \* the slideshow is idle
    /\ image_paths = <<>>
    /\ audio = None
    /\ aspect_ratios = <<>>
    /\ valid_image_paths = <<>>
    /\ canvas = <<0, 0>>
    /\ total_duration = None
    /\ place_i = 0
    /\ current_time = <<0, 1>>
    /\ schedule = <<>>
    /\ clips = <<>>
    /\ ss_error = None
    /\ output_written = FALSE
    /\ transcript_words = <<>>
    /\ final_video = None
    /\ ss_pc = "idle"

\* Lines 618-666: the key check and the creation request; start_time is
\* taken when the talk exists.
CreateTalk(created) ==
    /\ talk_pc = "create"
    /\ IF created
       THEN /\ talk_pc' = "poll"
            /\ talk_return' = None
       ELSE /\ talk_pc' = "returned"
            /\ talk_return' = Error("D-ID talk creation failed")
    /\ UNCHANGED <<talk_elapsed, talk_polls, talk_status, talk_answered_at>>
    /\ UNCHANGED <<capVars, ddVars, ssVars, reqVars, routeVars>>

\* One iteration of the polling loop (lines 668-689): the request takes
\* `seconds` and brings `answer`.
PollStatus(answer, seconds) ==
    /\ talk_pc = "poll"
    /\ WithinTimeout(talk_elapsed)
    /\ LET arrived == talk_elapsed + seconds
       IN /\ talk_polls' = talk_polls + 1
          /\ talk_status' = IF answer.raises THEN None ELSE Some(answer.status)
          /\ talk_answered_at' = arrived
          /\ IF KeepsPolling(answer)
             THEN /\ talk_elapsed' = AfterSleep(arrived)
                  /\ UNCHANGED <<talk_pc, talk_return>>
             ELSE /\ talk_elapsed' = arrived
                  /\ talk_pc' = "returned"
                  /\ talk_return' = ReturnFor(answer)
    /\ UNCHANGED <<capVars, ddVars, ssVars, reqVars, routeVars>>

\* The loop condition is false: line 691.
PollTimeout ==
    /\ talk_pc = "poll"
    /\ ~WithinTimeout(talk_elapsed)
    /\ talk_pc' = "returned"
    /\ talk_return' = Error("D-ID video generation timed out.")
    /\ UNCHANGED <<talk_elapsed, talk_polls, talk_status, talk_answered_at>>
    /\ UNCHANGED <<capVars, ddVars, ssVars, reqVars, routeVars>>

TalkNext ==
    \/ \E created \in BOOLEAN : CreateTalk(created)
    \/ \E answer \in StatusAnswers, seconds \in RequestSeconds :
          PollStatus(answer, seconds)
    \/ PollTimeout

\* Every call and every sleep returns, so the function keeps taking steps.
SpecTalk ==
    /\ TalkInit
    /\ [][TalkNext]_vars
    /\ WF_vars(TalkNext)

(***************************************************************************)
(* REQUESTS SERVED IN PARALLEL                                             *)
(*                                                                         *)
(* The server runs each request on a thread of one process, so every       *)
(* request sees the same working directory and the same folders.  A        *)
(* request goes through generate_confirmation_route (the download loop)    *)
(* and then create_video_route with video_type 'product' (voiceover,       *)
(* slideshow encoding, cleanup).  A path is a record [kind, id]: id is     *)
(* the uuid4 drawn for the file name, or 0 when the name holds no uuid.    *)
(***************************************************************************)
NumRequests == 2
MaxRequestUrls == 2

Requests == 1..NumRequests

\* bytes a URL of the scraped page may answer with
RequestContents == {1, 2}

\* a file name built around a freshly drawn uuid4
UuidPath(kind, id) == [kind |-> kind, id |-> id]

\* temp_audiofile of the slideshow encoder: a fixed name, relative to the
\* working directory of the process
TempSlideshowAudio == [kind |-> "temp-slideshow-audio.m4a", id |-> 0]

\* the temporary audio file of an encoding does not depend on its output
TempAudioFor(output) == TempSlideshowAudio

ParallelInit ==
    /\ req_pc = [r \in Requests |-> "generate"]
    /\ req_hashes = [r \in Requests |-> {}]
    /\ req_images = [r \in Requests |-> <<>>]
    /\ req_audio = [r \in Requests |-> None]
    /\ req_open = [r \in Requests |-> {}]
    /\ req_touched = [r \in Requests |-> {}]
    /\ uuid_count = 0
    \* no route has been requested
    /\ session = <<>>
    /\ disk_files = {}
    /\ route_uuid = 0
    /\ response = <<>>
    /\ last_request = <<>>
    \* no talking-head generation
    /\ talk_pc = "idle"
    /\ talk_elapsed = 0
    /\ talk_polls = 0
    /\ talk_status = None
    /\ talk_answered_at = 0
    /\ talk_return = None
    \* the caption loop is idle
    /\ word_timestamps = <<>>
    /\ cap_i = 0
    /\ segment_words = <<>>
    /\ segment_start_time = 0
    /\ text_clips_list = <<>>
    /\ cap_pc = "idle"
    \* the de-duplication loop is idle
    /\ num_urls = 0
    /\ video_type = "product"
    /\ dd_i = 0
    /\ downloaded_content_hashes = {}
    /\ downloaded_phashes = <<>>
    /\ confirm_image_details = <<>>
    /\ confirm_files = {}
    /\ dd_last = NotStarted
    /\ dd_served = <<>>
    /\ dd_pc = "idle"
    \* the slideshow is idle
    /\ image_paths = <<>>
    /\ audio = None
    /\ aspect_ratios = <<>>
    /\ valid_image_paths = <<>>
    /\ canvas = <<0, 0>>
    /\ total_duration = None
    /\ place_i = 0
    /\ current_time = <<0, 1>>
    /\ schedule = <<>>
    /\ clips = <<>>
    /\ ss_error = None
    /\ output_written = FALSE
    /\ transcript_words = <<>>
    /\ final_video = None
    /\ ss_pc = "idle"

\* one pass of the download loop: download_image saves the bytes under a
\* fresh name; an exact duplicate of this request's own hashes is removed
\* again, any other image is kept and its hash added
ReqDownload(r, bytes) ==
    /\ req_pc[r] = "generate"
    /\ Cardinality(req_touched[r]) < MaxRequestUrls
    /\ LET path == UuidPath("img", uuid_count + 1) IN
       /\ uuid_count' = uuid_count + 1
       /\ req_touched' = [req_touched EXCEPT ![r] = @ \cup {path}]
       /\ IF bytes \in req_hashes[r]
            THEN UNCHANGED <<req_hashes, req_images>>
            ELSE /\ req_hashes' = [req_hashes EXCEPT ![r] = @ \cup {bytes}]
                 /\ req_images' = [req_images EXCEPT ![r] = Append(@, path)]
    /\ UNCHANGED <<req_pc, req_audio, req_open>>
    /\ UNCHANGED <<capVars, ddVars, ssVars, talkVars, routeVars>>

\* the confirmation page is rendered; the user then posts /create_video
ReqConfirm(r) ==
    /\ req_pc[r] = "generate"
    /\ req_pc' = [req_pc EXCEPT ![r] = "create"]
    /\ UNCHANGED <<req_hashes, req_images, req_audio, req_open, req_touched, uuid_count>>
    /\ UNCHANGED <<capVars, ddVars, ssVars, talkVars, routeVars>>

\* generate_voiceover writes voiceover_<uuid>.mp3
ReqVoiceover(r) ==
    /\ req_pc[r] = "create"
    /\ LET path == UuidPath("voiceover", uuid_count + 1) IN
       /\ uuid_count' = uuid_count + 1
       /\ req_audio' = [req_audio EXCEPT ![r] = Some(path)]
       /\ req_touched' = [req_touched EXCEPT ![r] = @ \cup {path}]
    /\ req_pc' = [req_pc EXCEPT ![r] = "slideshow"]
    /\ UNCHANGED <<req_hashes, req_images, req_open>>
    /\ UNCHANGED <<capVars, ddVars, ssVars, talkVars, routeVars>>

\* write_videofile starts: the encoder writes the temporary audio file and
\* the output file final_slideshow_<uuid>.mp4
ReqEncodeStart(r) ==
    /\ req_pc[r] = "slideshow"
    /\ LET output == UuidPath("final_slideshow", uuid_count + 1) IN
       /\ uuid_count' = uuid_count + 1
       /\ req_open' = [req_open EXCEPT ![r] = {output, TempAudioFor(output)}]
       /\ req_touched' = [req_touched EXCEPT ![r] = @ \cup {output, TempAudioFor(output)}]
    /\ req_pc' = [req_pc EXCEPT ![r] = "encoding"]
    /\ UNCHANGED <<req_hashes, req_images, req_audio>>
    /\ UNCHANGED <<capVars, ddVars, ssVars, talkVars, routeVars>>

\* write_videofile ends: remove_temp=True deletes the temporary audio file
ReqEncodeEnd(r) ==
    /\ req_pc[r] = "encoding"
    /\ req_open' = [req_open EXCEPT ![r] = {}]
    /\ req_pc' = [req_pc EXCEPT ![r] = "cleanup"]
    /\ UNCHANGED <<req_hashes, req_images, req_audio, req_touched, uuid_count>>
    /\ UNCHANGED <<capVars, ddVars, ssVars, talkVars, routeVars>>

\* the finally block deletes the request's confirmation images and its
\* voiceover file
ReqCleanup(r) ==
    /\ req_pc[r] = "cleanup"
    /\ req_images' = [req_images EXCEPT ![r] = <<>>]
    /\ req_audio' = [req_audio EXCEPT ![r] = None]
    /\ req_pc' = [req_pc EXCEPT ![r] = "done"]
    /\ UNCHANGED <<req_hashes, req_open, req_touched, uuid_count>>
    /\ UNCHANGED <<capVars, ddVars, ssVars, talkVars, routeVars>>

RequestDownloads == \E r \in Requests, bytes \in RequestContents : ReqDownload(r, bytes)
RequestConfirms == \E r \in Requests : ReqConfirm(r)
RequestVoiceovers == \E r \in Requests : ReqVoiceover(r)
RequestEncodeStarts == \E r \in Requests : ReqEncodeStart(r)
RequestEncodeEnds == \E r \in Requests : ReqEncodeEnd(r)
RequestCleanups == \E r \in Requests : ReqCleanup(r)

ParallelNext ==
    \/ RequestDownloads
    \/ RequestConfirms
    \/ RequestVoiceovers
    \/ RequestEncodeStarts
    \/ RequestEncodeEnds
    \/ RequestCleanups

SpecParallel == ParallelInit /\ [][ParallelNext]_vars

(***************************************************************************)
(* THE ROUTES OF ONE BROWSER SESSION                                       *)
(*                                                                         *)
(* index, /generate, /upload_image and /create_video, requested one after  *)
(* the other by one browser.  The session is the signed cookie: it holds   *)
(* confirm_data and confirm_images, each None when the key is absent.  A   *)
(* file path is a record [dir, prefix, id], id being the uuid4 in the      *)
(* file name.  Each action is one whole handler; what the handler's        *)
(* collaborators answer (scraper, script, D-ID, downloads, encoders) is    *)
(* an input of the action.                                                 *)
(***************************************************************************)
MaxRouteUuids == 5

UPLOAD_FOLDER == "uploads"
GENERATED_FOLDER == "static/generated"
CONFIRM_FOLDER == "static/generated/confirm_temp"

FilePath(dir, prefix, id) == [dir |-> dir, prefix |-> prefix, id |-> id]

\* os.path.join(folder, os.path.basename(path))
InFolder(folder, path) == [path EXCEPT !.dir = folder]

\* os.path.join('generated', 'confirm_temp', os.path.basename(absolute_path))
RelativePath(absolute_path) == InFolder("generated/confirm_temp", absolute_path)

\* the file that url_for('static', filename='generated/<name>') serves
StaticGenerated(path) == InFolder("static/generated", path)

DEFAULT_AVATAR_URL == FilePath("https://images.pexels.com", "pexels-photo-415829", 0)

ConfirmImage(absolute_path) ==
    [relative_path |-> RelativePath(absolute_path), absolute_path |-> absolute_path]

EmptySession == [confirm_data |-> None, confirm_images |-> None]

\* session.get('confirm_images', [])
ConfirmImagesOf(s) == IF s.confirm_images = None THEN <<>> ELSE s.confirm_images[1]

\* session.pop('confirm_data', None); session.pop('confirm_images', None)
PopConfirm(s) == [s EXCEPT !.confirm_data = None, !.confirm_images = None]

Response(route, status, success, video_url) ==
    [route |-> route, status |-> status, success |-> success, video_url |-> video_url]

\* what a request saw and did, for the routes that do none of it
NoFacts ==
    [route |-> "none",
     session_before |-> EmptySession,
     saved_avatar |-> None,
     video_type |-> "",
     ignored |-> {},
     selected_absolute_paths |-> <<>>,
     avatar_source_url |-> DEFAULT_AVATAR_URL,
     calls |-> {},
     slideshow_inputs |-> <<>>,
     final_video_path |-> None]

\* what the form of the index page may send to /generate
\* the number of images the download loop may keep
ConfirmCounts == {0, 1}

VideoTypes == {"product", "avatar"}
AvatarFiles == {"none", "avatar.png", "avatar.gif"}
FormAvatarPaths == {None, Some(FilePath(UPLOAD_FOLDER, "avatar", 0))}

AllowedAvatarFile(avatar_file) == avatar_file = "avatar.png"

\* line 1194: uploaded_avatar_path_relative, set to the saved file's path at
\* line 1157, is assigned again from the form field uploaded_avatar_path
\* before the session is written
AvatarPathForSession(saved, form_field) == form_field

RoutesInit ==
    /\ session = EmptySession
    /\ disk_files = {}
    /\ route_uuid = 0
    /\ response = Response("none", 0, FALSE, None)
    /\ last_request = NoFacts
    \* no parallel requests
    /\ req_pc = <<>>
    /\ req_hashes = <<>>
    /\ req_images = <<>>
    /\ req_audio = <<>>
    /\ req_open = <<>>
    /\ req_touched = <<>>
    /\ uuid_count = 0
    \* no talking-head generation
    /\ talk_pc = "idle"
    /\ talk_elapsed = 0
    /\ talk_polls = 0
    /\ talk_status = None
    /\ talk_answered_at = 0
    /\ talk_return = None
    \* the caption loop is idle
    /\ word_timestamps = <<>>
    /\ cap_i = 0
    /\ segment_words = <<>>
    /\ segment_start_time = 0
    /\ text_clips_list = <<>>
    /\ cap_pc = "idle"
    \* the de-duplication loop is idle
    /\ num_urls = 0
    /\ video_type = "product"
    /\ dd_i = 0
    /\ downloaded_content_hashes = {}
    /\ downloaded_phashes = <<>>
    /\ confirm_image_details = <<>>
    /\ confirm_files = {}
    /\ dd_last = NotStarted
    /\ dd_served = <<>>
    /\ dd_pc = "idle"
    \* the slideshow is idle
    /\ image_paths = <<>>
    /\ audio = None
    /\ aspect_ratios = <<>>
    /\ valid_image_paths = <<>>
    /\ canvas = <<0, 0>>
    /\ total_duration = None
    /\ place_i = 0
    /\ current_time = <<0, 1>>
    /\ schedule = <<>>
    /\ clips = <<>>
    /\ ss_error = None
    /\ output_written = FALSE
    /\ transcript_words = <<>>
    /\ final_video = None
    /\ ss_pc = "idle"

\* index(): the form page; clears confirm_data and confirm_images
Index ==
    /\ session' = PopConfirm(session)
    /\ response' = Response("/", 200, TRUE, None)
    /\ last_request' = [NoFacts EXCEPT !.route = "/", !.session_before = session]
    /\ UNCHANGED <<disk_files, route_uuid>>
    /\ UNCHANGED <<capVars, ddVars, ssVars, talkVars, reqVars>>

\* the images the download loop keeps: confirm_image_details
DownloadedImages(first_id, count) ==
    [k \in 1..count |->
        [relative_path |-> RelativePath(FilePath(CONFIRM_FOLDER, "img", first_id + k - 1)),
         absolute_path |-> FilePath(CONFIRM_FOLDER, "img", first_id + k - 1)]]

AbsolutePaths(images) == {images[k].absolute_path : k \in 1..Len(images)}

\* generate_confirmation_route(): saves the avatar, scrapes, downloads the
\* images and stores confirm_data and confirm_images in the session.
\*   form_video_type, avatar_file, form_avatar_path   the posted form fields
\*   saves      avatar_file.save() succeeds
\*   scraped    scrape_product_data() returns data
\*   count      the number of images the download loop keeps
Generate(form_video_type, avatar_file, form_avatar_path, saves, scraped, count) ==
    /\ route_uuid + count + 1 <= MaxRouteUuids
    \* avatar_file.save() is called for an avatar upload only
    /\ ~saves => form_video_type = "avatar" /\ AllowedAvatarFile(avatar_file)
    \* nothing is downloaded when scraping failed
    /\ ~scraped => count = 0
    /\ LET uploads == form_video_type = "avatar" /\ avatar_file # "none"
           saved_path == FilePath(UPLOAD_FOLDER, "avatar", route_uuid + 1)
           saved == uploads /\ AllowedAvatarFile(avatar_file) /\ saves
           after_upload == IF saved THEN route_uuid + 1 ELSE route_uuid
           disk_after_upload == IF saved THEN disk_files \cup {saved_path} ELSE disk_files
           uploaded_avatar_path_relative ==
               AvatarPathForSession(IF saved THEN Some(saved_path) ELSE None, form_avatar_path)
           kept_image_details == DownloadedImages(after_upload + 1, count)
           facts == [NoFacts EXCEPT !.route = "/generate",
                                    !.session_before = session,
                                    !.video_type = form_video_type,
                                    !.saved_avatar = IF saved THEN Some(saved_path) ELSE None]
       IN
       /\ last_request' = facts
       /\ IF uploads /\ ~saved
            THEN \* wrong extension, or the save raised: back to the form
                 /\ response' = Response("/generate", 302, FALSE, None)
                 /\ UNCHANGED <<session, disk_files, route_uuid>>
          ELSE IF ~scraped
            THEN /\ response' = Response("/generate", 302, FALSE, None)
                 /\ disk_files' = disk_after_upload
                 /\ route_uuid' = after_upload
                 /\ UNCHANGED session
          ELSE IF count = 0 /\ form_video_type = "product"
            THEN \* no image to confirm: the avatar named by the local is removed
                 /\ response' = Response("/generate", 302, FALSE, None)
                 /\ disk_files' =
                      IF uploaded_avatar_path_relative = None
                        THEN disk_after_upload
                        ELSE disk_after_upload \ {InFolder(UPLOAD_FOLDER, uploaded_avatar_path_relative[1])}
                 /\ route_uuid' = after_upload
                 /\ UNCHANGED session
          ELSE /\ session' =
                      [confirm_data |->
                           Some([video_type |-> form_video_type,
                                 uploaded_avatar_relative_path |-> uploaded_avatar_path_relative]),
                       confirm_images |-> Some(kept_image_details)]
               /\ disk_files' = disk_after_upload \cup AbsolutePaths(kept_image_details)
               /\ route_uuid' = after_upload + count
               /\ response' = Response("/generate", 200, TRUE, None)
    /\ UNCHANGED <<capVars, ddVars, ssVars, talkVars, reqVars>>

\* upload_image(): saves one more image into the confirm folder and appends
\* it to the session's confirm_images
UploadImage(valid) ==
    /\ route_uuid + 1 <= MaxRouteUuids
    /\ Len(ConfirmImagesOf(session)) < Cardinality(ConfirmCounts)
    /\ last_request' = [NoFacts EXCEPT !.route = "/upload_image", !.session_before = session]
    /\ IF ~valid
         THEN /\ response' = Response("/upload_image", 400, FALSE, None)
              /\ UNCHANGED <<session, disk_files, route_uuid>>
         ELSE LET save_path == FilePath(CONFIRM_FOLDER, "user", route_uuid + 1) IN
              /\ disk_files' = disk_files \cup {save_path}
              /\ route_uuid' = route_uuid + 1
              /\ session' = [session EXCEPT !.confirm_images =
                                Some(Append(ConfirmImagesOf(session), ConfirmImage(save_path)))]
              /\ response' = Response("/upload_image", 200, TRUE, None)
    /\ UNCHANGED <<capVars, ddVars, ssVars, talkVars, reqVars>>

\* path_map.get(rel_path): a later entry of confirm_images replaces an
\* earlier one with the same relative path
PathMapGet(images, rel_path) ==
    LET hits == {k \in 1..Len(images) : images[k].relative_path = rel_path} IN
    IF hits = {} THEN None
    ELSE Some(images[CHOOSE k \in hits : \A j \in hits : j <= k].absolute_path)

\* (variant: a selected path is taken from the request as it is)
PathFor_Trusting(images, rel_path) == Some(InFolder(CONFIRM_FOLDER, rel_path))
PathFor(images, rel_path) == PathMapGet(images, rel_path)

\* lines 1369-1379: the selected relative paths mapped to absolute paths
SelectedAbsolutePaths(selected, images, on_disk) ==
    LET Accepted(rel_path) ==
            /\ PathFor(images, rel_path) # None
            /\ PathFor(images, rel_path)[1] \in on_disk
        kept == SelectSeq(selected, Accepted)
    IN [k \in 1..Len(kept) |-> PathFor(images, kept[k])[1]]

\* seq[:n]
FirstN(seq, n) == SubSeq(seq, 1, IF Len(seq) < n THEN Len(seq) ELSE n)

\* the stage of a generation that fails ("none": no stage fails), for each
\* branch of create_video_route
StagesOf(branch) ==
    IF branch = "avatar"
      THEN {"none", "script", "talk", "download", "background", "composite"}
    ELSE IF branch = "product"
      THEN {"none", "script", "voiceover", "slideshow"}
    ELSE {"none"}

Stages == StagesOf("avatar") \cup StagesOf("product")

\* what one branch of create_video_route did
Generated(error, calls, inputs, written, final, temp, audio_path, drawn) ==
    [error |-> error, calls |-> calls, slideshow_inputs |-> inputs,
     written |-> written, final_video_path |-> final,
     temp_did_video_path |-> temp, generated_audio_path |-> audio_path,
     drawn |-> drawn]

\* lines 1407-1563: the 'avatar' branch
AvatarBranch(selected_absolute_paths, images, on_disk, fails_at, uuid) ==
    LET temp == FilePath(GENERATED_FOLDER, "temp", uuid + 1)
        bg == FilePath(GENERATED_FOLDER, "bg", uuid + 2)
        final == FilePath(GENERATED_FOLDER, "final_avatar", uuid + 3)
        bg_images == IF selected_absolute_paths # <<>>
                       THEN selected_absolute_paths
                       ELSE FirstN([k \in 1..Len(images) |-> images[k].absolute_path], 8)
        bg_written == /\ fails_at # "background"
                      /\ \E k \in 1..Len(bg_images) : bg_images[k] \in on_disk
        composited == bg_written /\ fails_at # "composite"
    IN
    IF fails_at = "script"
      THEN Generated(TRUE, {"script"}, <<>>, {}, None, None, None, 0)
    ELSE IF fails_at = "talk"
      THEN Generated(TRUE, {"script", "talk"}, <<>>, {}, None, None, None, 0)
    ELSE IF fails_at = "download"
      THEN Generated(TRUE, {"script", "talk", "download"}, <<>>, {}, None, Some(temp), None, 1)
    ELSE Generated(FALSE,
                   {"script", "talk", "download", "slideshow", "composite"},
                   <<bg_images>>,
                   {temp} \cup (IF bg_written THEN {bg} ELSE {})
                          \cup (IF composited THEN {final} ELSE {}),
                   \* the downloaded talk is the final video when compositing fails
                   IF composited THEN Some(final) ELSE Some(temp),
                   Some(temp), None, 3)

\* line 1567
NoImagesSelected(selected_absolute_paths) == selected_absolute_paths = <<>>

\* lines 1565-1586: the 'product' branch
ProductBranch(selected_absolute_paths, fails_at, uuid) ==
    LET audio_path == FilePath(GENERATED_FOLDER, "voiceover", uuid + 1)
        final == FilePath(GENERATED_FOLDER, "final_slideshow", uuid + 2)
    IN
    IF NoImagesSelected(selected_absolute_paths)
      THEN Generated(TRUE, {}, <<>>, {}, None, None, None, 0)
    ELSE IF fails_at = "script"
      THEN Generated(TRUE, {"script"}, <<>>, {}, None, None, None, 0)
    ELSE IF fails_at = "voiceover"
      THEN Generated(TRUE, {"script", "voiceover"}, <<>>, {}, None, None, Some(audio_path), 1)
    ELSE IF fails_at = "slideshow"
      THEN Generated(TRUE, {"script", "voiceover", "slideshow"}, <<selected_absolute_paths>>,
                     {audio_path}, Some(final), None, Some(audio_path), 2)
    ELSE Generated(FALSE, {"script", "voiceover", "slideshow"}, <<selected_absolute_paths>>,
                   {audio_path, final}, Some(final), None, Some(audio_path), 2)

\* line 1632: (variant: the downloaded talk is always removed)
RemovesTempVideo_Always(final_video_path, temp_did_video_path) == TRUE
RemovesTempVideo(final_video_path, temp_did_video_path) ==
    final_video_path # temp_did_video_path

\* what the confirmation page may post as selected_images: relative paths
\* of confirmation images on disk, of this session or left by an earlier
\* one, and a path that names no file
SelectablePaths ==
    {RelativePath(f) : f \in {g \in disk_files : g.dir = CONFIRM_FOLDER}}
       \cup {FilePath("generated/confirm_temp", "img", 0)}

Selections ==
    {<<>>} \cup {<<a>> : a \in SelectablePaths}
           \cup {p \in SelectablePaths \X SelectablePaths : p[1] # p[2]}

JsonVideoTypes == {None, Some("product"), Some("avatar"), Some("other")}

\* create_video_route(): the whole handler, its finally block included.
\*   json_ok    the body is a JSON object with a list selected_images
\*   selected   selected_images
\*   json_type  video_type of the body, None when absent or empty
\*   fails_at   the stage that fails
CreateVideo(json_ok, selected, json_type, fails_at) ==
    LET confirm_data == session.confirm_data
        confirm_images_info == ConfirmImagesOf(session)
        facts == [NoFacts EXCEPT !.route = "/create_video",
                                 !.session_before = session]
    IN
    /\ route_uuid + 3 <= MaxRouteUuids
    /\ IF confirm_data = None \/ ~json_ok
         THEN \* lines 1331-1349: answered before the try statement
              /\ response' = Response("/create_video", 400, FALSE, None)
              /\ last_request' = facts
              /\ UNCHANGED <<session, disk_files, route_uuid>>
         ELSE
         LET resolved_video_type == IF json_type # None THEN json_type[1]
                           ELSE confirm_data[1].video_type
             uploaded_avatar_relative_path == confirm_data[1].uploaded_avatar_relative_path
             selected_absolute_paths ==
                 SelectedAbsolutePaths(selected, confirm_images_info, disk_files)
             \* lines 1389-1398
             avatar_on_disk ==
                 /\ uploaded_avatar_relative_path # None
                 /\ InFolder(UPLOAD_FOLDER, uploaded_avatar_relative_path[1]) \in disk_files
             uploaded_avatar_absolute_path ==
                 IF avatar_on_disk
                   THEN Some(InFolder(UPLOAD_FOLDER, uploaded_avatar_relative_path[1]))
                   ELSE None
             avatar_source_url ==
                 IF avatar_on_disk THEN uploaded_avatar_absolute_path[1]
                 ELSE DEFAULT_AVATAR_URL
             staged == fails_at \in StagesOf(resolved_video_type)
             run == IF resolved_video_type = "avatar"
                      THEN AvatarBranch(selected_absolute_paths, confirm_images_info,
                                        disk_files, fails_at, route_uuid)
                    ELSE IF resolved_video_type = "product"
                      THEN ProductBranch(selected_absolute_paths, fails_at, route_uuid)
                    ELSE Generated(TRUE, {}, <<>>, {}, None, None, None, 0)
             \* line 1379: the selected paths that were not accepted
             ignored == {selected[k] : k \in 1..Len(selected)}
                           \ {RelativePath(f) : f \in
                                 {selected_absolute_paths[k] : k \in 1..Len(selected_absolute_paths)}}
             succeeded == ~run.error /\ run.final_video_path # None
             \* lines 1600-1601: the session is cleared before the return
             session_at_finally == IF succeeded THEN PopConfirm(session) ELSE session
             \* lines 1616-1639: the finally block
             confirm_images_to_delete == ConfirmImagesOf(session_at_finally)
             removed ==
                 (IF uploaded_avatar_absolute_path # None
                    THEN {uploaded_avatar_absolute_path[1]} ELSE {})
                 \cup AbsolutePaths(confirm_images_to_delete)
                 \cup (IF /\ run.temp_did_video_path # None
                          /\ RemovesTempVideo(run.final_video_path, run.temp_did_video_path)
                         THEN {run.temp_did_video_path[1]} ELSE {})
                 \cup (IF run.generated_audio_path # None
                         THEN {run.generated_audio_path[1]} ELSE {})
         IN
         /\ staged
         /\ disk_files' = (disk_files \cup run.written) \ removed
         \* lines 1642-1643
         /\ session' = PopConfirm(session_at_finally)
         /\ route_uuid' = route_uuid + run.drawn
         /\ response' =
              IF succeeded
                THEN Response("/create_video", 200, TRUE,
                              Some(StaticGenerated(run.final_video_path[1])))
                ELSE Response("/create_video", 500, FALSE, None)
         /\ last_request' =
              [facts EXCEPT !.video_type = resolved_video_type,
                            !.selected_absolute_paths = selected_absolute_paths,
                            !.ignored = ignored,
                            !.avatar_source_url = avatar_source_url,
                            !.calls = run.calls,
                            !.slideshow_inputs = run.slideshow_inputs,
                            !.final_video_path = run.final_video_path]
    /\ UNCHANGED <<capVars, ddVars, ssVars, talkVars, reqVars>>

GenerateRequests ==
    \E form_video_type \in VideoTypes, avatar_file \in AvatarFiles,
       form_avatar_path \in FormAvatarPaths, saves \in BOOLEAN, scraped \in BOOLEAN,
       count \in ConfirmCounts :
        Generate(form_video_type, avatar_file, form_avatar_path, saves, scraped, count)

UploadImageRequests == \E valid \in BOOLEAN : UploadImage(valid)

\* a body that is no JSON object, or any of the bodies the page can post;
\* without confirm_data the handler returns at line 1331 before it reads the
\* body, so one body stands for all of them
CreateVideoRequests ==
    \/ CreateVideo(FALSE, <<>>, None, "none")
    \/ /\ session.confirm_data # None
       /\ \E selected \in Selections, json_type \in JsonVideoTypes, fails_at \in Stages :
              CreateVideo(TRUE, selected, json_type, fails_at)

RoutesNext ==
    \/ Index
    \/ GenerateRequests
    \/ UploadImageRequests
    \/ CreateVideoRequests

SpecRoutes == RoutesInit /\ [][RoutesNext]_vars

(***************************************************************************)
(* IMAGE DE-DUPLICATION OF A LONG URL LIST                                 *)
(*                                                                         *)
(* The same loop for pages with as many image URLs as the limit and more.  *)
(* A long list is served from two images only, which keeps the number of   *)
(* runs small; the short lists are served as in SpecDedup.                 *)
(***************************************************************************)
LongLists == {MAX_PRODUCT_IMAGES, MAX_PRODUCT_IMAGES + 1}

LongListContents == {r \in RemoteImages : r.bytes \in {<<1>>, <<3>>}}

ContentsFor(n) == IF n \in LongLists THEN LongListContents ELSE UrlContents

DdCapInit ==
    /\ num_urls \in (0..MaxUrls) \cup LongLists
    /\ video_type \in {"product", "avatar"}
    /\ dd_i = 0
    /\ downloaded_content_hashes = {}
    /\ downloaded_phashes = <<>>
    /\ confirm_image_details = <<>>
    /\ confirm_files = {}
    /\ dd_last = NotStarted
    /\ dd_served = <<>>
    \* no talking-head generation
    /\ talk_pc = "idle"
    /\ talk_elapsed = 0
    /\ talk_polls = 0
    /\ talk_status = None
    /\ talk_answered_at = 0
    /\ talk_return = None
    \* no parallel requests
    /\ req_pc = <<>>
    /\ req_hashes = <<>>
    /\ req_images = <<>>
    /\ req_audio = <<>>
    /\ req_open = <<>>
    /\ req_touched = <<>>
    /\ uuid_count = 0
    \* no route has been requested
    /\ session = <<>>
    /\ disk_files = {}
    /\ route_uuid = 0
    /\ response = <<>>
    /\ last_request = <<>>
    /\ dd_pc = "loop"
    \* the caption loop is idle
    /\ word_timestamps = <<>>
    /\ cap_i = 0
    /\ segment_words = <<>>
    /\ segment_start_time = 0
    /\ text_clips_list = <<>>
    /\ cap_pc = "idle"
    \* the slideshow is idle
    /\ image_paths = <<>>
    /\ audio = None
    /\ aspect_ratios = <<>>
    /\ valid_image_paths = <<>>
    /\ canvas = <<0, 0>>
    /\ total_duration = None
    /\ place_i = 0
    /\ current_time = <<0, 1>>
    /\ schedule = <<>>
    /\ clips = <<>>
    /\ ss_error = None
    /\ output_written = FALSE
    /\ transcript_words = <<>>
    /\ final_video = None
    /\ ss_pc = "idle"

DdCapNext ==
    \/ \E remote \in ContentsFor(num_urls) : ProcessUrl(remote)
    \/ DedupFinish

SpecDedupCap ==
    /\ DdCapInit
    /\ [][DdCapNext]_vars

(***************************************************************************)
(* CLAIMS                                                                  *)
(***************************************************************************)

\* The transcript of the specification's example.
HelloWords ==
    << [word |-> "Hello", start |-> 0,  end |-> 4],
       [word |-> "world", start |-> 4,  end |-> 9],
       [word |-> "this",  start |-> 9,  end |-> 13],
       [word |-> "rocks", start |-> 13, end |-> 30] >>

\* C1: a word joins the current caption segment only if the span from the
\* segment's first word start to that word's end stays below 2.5 s, so every
\* segment of two or more words spans less than 2.5 s; the example transcript
\* (Hello 0.0-0.4, world 0.4-0.9, this 0.9-1.3, rocks 1.3-3.0) yields exactly
\* the two segments "Hello world this" [0.0,1.3] and "rocks" [1.3,3.0].
C1_SegmentSpanBelowMaxDuration ==
    /\ \A k \in DOMAIN text_clips_list :
          Len(text_clips_list[k].words) >= 2
              => text_clips_list[k].duration < caption_max_duration_per_segment
    /\ (cap_pc = "done" /\ word_timestamps = HelloWords)
          => /\ Len(text_clips_list) = 2
             /\ text_clips_list[1].text = "Hello world this"
             /\ text_clips_list[1].start = 0
             /\ text_clips_list[1].duration = 13
             /\ text_clips_list[2].text = "rocks"
             /\ text_clips_list[2].start = 13
             /\ text_clips_list[2].duration = 17

\* What the code does with the example: one segment of four words, 3.0 s long.
C1_HelloIsOneSegment ==
    (cap_pc = "done" /\ word_timestamps = HelloWords)
        => /\ Len(text_clips_list) = 1
           /\ text_clips_list[1].text = "Hello world this rocks"
           /\ text_clips_list[1].start = 0
           /\ text_clips_list[1].duration = 30

\* C2: an image whose bytes equal those of an already accepted image is
\* rejected as an exact duplicate and is not added to the accepted list,
\* whatever its perceptual hash or its dimensions.
C2_ExactDuplicateRejected ==
    (dd_last.remote.served
       /\ \E k \in DOMAIN dd_last.details_before :
             dd_last.details_before[k].hash = Some(SHA256(dd_last.remote.bytes)))
        => /\ dd_last.decision = "RejectExactDuplicate"
           /\ confirm_image_details = dd_last.details_before

\* C2 witness: the bytes of an accepted 800x800 image with no perceptual hash
\* were served again, and rejected.
C2_Witness ==
    /\ dd_last.remote.served
    /\ dd_last.remote.phash = None /\ dd_last.remote.opens
    /\ \E k \in DOMAIN dd_last.details_before :
          dd_last.details_before[k].hash = Some(SHA256(dd_last.remote.bytes))
    /\ dd_last.decision = "RejectExactDuplicate"

\* True when an image accepted before the last iteration has a perceptual
\* hash within distance d of the last image's.
NearAccepted(d) ==
    \E k \in DOMAIN dd_last.details_before :
        /\ dd_last.details_before[k].phash # None
        /\ Hamming(dd_last.remote.phash[1], dd_last.details_before[k].phash[1]) <= d

\* C3: an image with a new content hash whose perceptual hash is at Hamming
\* distance <= 5 (5 included) from that of an accepted image is rejected as a
\* visual duplicate and is not accepted.
C3_VisualDuplicateRejected ==
    (dd_last.remote.served
       /\ Some(SHA256(dd_last.remote.bytes)) \notin dd_last.hashes_before
       /\ dd_last.remote.phash # None
       /\ NearAccepted(5))
        => /\ dd_last.decision = "RejectVisualDuplicate"
           /\ confirm_image_details = dd_last.details_before

\* C3 witness: the boundary, an image at distance exactly 5 from the nearest
\* accepted image, rejected as a visual duplicate.
C3_Witness ==
    /\ dd_last.remote.served
    /\ Some(SHA256(dd_last.remote.bytes)) \notin dd_last.hashes_before
    /\ dd_last.remote.phash # None
    /\ NearAccepted(5) /\ ~NearAccepted(4)
    /\ dd_last.decision = "RejectVisualDuplicate"

\* The images of image_paths that have non-zero dimensions, and the mean of
\* their width/height.
SizedImages == SelectSeq(image_paths, LAMBDA f : f.opens /\ f.width # 0 /\ f.height # 0)

RECURSIVE SumOfRatios(_)
SumOfRatios(fs) ==
    IF Len(fs) = 0 THEN <<0, 1>>
    ELSE FracAdd(Frac(fs[1].width, fs[1].height), SumOfRatios(Tail(fs)))

\* mean < p/q, mean = p/q, for the mean of the sized images (there is one)
MeanBelow(p, q) ==
    LET sum == SumOfRatios(SizedImages)
    IN sum[1] * q < p * Len(SizedImages) * sum[2]

MeanIs(p, q) ==
    LET sum == SumOfRatios(SizedImages)
    IN sum[1] * q = p * Len(SizedImages) * sum[2]

C5_PlacementAlwaysFrameSized ==
    /\ \A k \in DOMAIN schedule : schedule[k].outcome # "resize_failed"
    /\ \A k \in DOMAIN clips : clips[k].placed.size = canvas

\* The end of a clip.
ClipEnd(c) == FracAdd(c.start, c.duration)

RECURSIVE SumOfDurations(_)
SumOfDurations(cs) ==
    IF Len(cs) = 0 THEN <<0, 1>> ELSE FracAdd(cs[1].duration, SumOfDurations(Tail(cs)))

\* C6: the frames' durations sum to the total duration: the frames are
\* contiguous from 0 to total_duration and there is one frame per valid input
\* image, also when the processing of an image fails in the placement loop.
C6_FramesCoverTotalDuration ==
    ss_pc \in {"write", "done"} =>
        /\ Len(clips) = Len(valid_image_paths)
        /\ clips[1].start = <<0, 1>>
        /\ \A k \in 1..(Len(clips) - 1) : clips[k + 1].start = ClipEnd(clips[k])
        /\ ClipEnd(clips[Len(clips)]) = total_duration[1]
        /\ SumOfDurations(clips) = total_duration[1]

\* The schedule the loop of lines 934-994 computes for n frames and a total
\* of T seconds, from frame i on, starting at `start`.
RECURSIVE ScheduleFrom(_, _, _, _)
ScheduleFrom(i, n, T, start) ==
    IF i >= n THEN <<>>
    ELSE LET end == EndTime(i, n, start, BaseImageDuration(FracOfInt(T), n), FracOfInt(T))
         IN <<[start_time |-> start, end_time |-> end]>> \o ScheduleFrom(i + 1, n, T, end)

\* C7: with an audio track of T > 0 seconds and n >= 1 valid images, frame i
\* is scheduled from i*T/n and lasts T/n, and the last frame ends at exactly
\* T; T = 10 s and 4 images give 2.5 s per frame, the last ending at 10.0 s.
C7_EvenScheduleWithAudio ==
    /\ ScheduleFrom(0, 4, 10, <<0, 1>>) =
          << [start_time |-> <<0, 1>>,  end_time |-> <<5, 2>>],
             [start_time |-> <<5, 2>>,  end_time |-> <<5, 1>>],
             [start_time |-> <<5, 1>>,  end_time |-> <<15, 2>>],
             [start_time |-> <<15, 2>>, end_time |-> <<10, 1>>] >>
    /\ (audio # None /\ audio[1] > 0 /\ Len(SizedImages) >= 1) =>
          LET T == audio[1]
              n == Len(SizedImages)
          IN /\ \A k \in DOMAIN schedule :
                   /\ schedule[k].start_time = Frac((k - 1) * T, n)
                   /\ schedule[k].end_time = Frac(k * T, n)
             /\ Len(schedule) = n => schedule[n].end_time = <<T, 1>>
             /\ \A k \in DOMAIN clips :
                   /\ clips[k].start = Frac(clips[k].index * T, n)
                   /\ clips[k].duration = Frac(T, n)

\* C7 witness: 10 s of audio over three valid images, all placed, the last
\* frame ending at 10 s.
C7_Witness ==
    /\ audio = Some(10)
    /\ Len(SizedImages) = 3
    /\ Len(clips) = 3
    /\ clips[2].start = <<10, 3>>
    /\ ClipEnd(clips[3]) = <<10, 1>>

\* C8: without audio every placed frame lasts exactly 3 s and the total
\* duration is 3 s times the number of frames placed, for every list of
\* paths, also when some cannot be opened or have a zero dimension.
C8_ThreeSecondsPerFrame ==
    (audio = None /\ ss_pc \in {"write", "done"}) =>
        /\ \A k \in DOMAIN clips : clips[k].duration = <<3, 1>>
        /\ total_duration[1] = <<3 * Len(clips), 1>>

\* The image a clip shows.
ClipImage(c) == image_paths[valid_image_paths[c.index + 1]]

\* |w/h - W/H| >= 0.01, w/h > W/H, w/h < W/H for image f and the frame
AspectDiffers(f) ==
    100 * Abs(f.width * canvas[2] - canvas[1] * f.height) >= f.height * canvas[2]
WiderThanFrame(f) == f.width * canvas[2] > canvas[1] * f.height
TallerThanFrame(f) == f.width * canvas[2] < canvas[1] * f.height

\* C9: an image whose aspect differs from the frame's by 0.01 or more is
\* placed by crop-to-fill: a wider image is scaled to the frame's height and
\* cropped left and right, a taller one is scaled to the frame's width and
\* cropped top and bottom, so that no padding pixel is left.
C9_CropToFill ==
    \A k \in DOMAIN clips :
        LET f == ClipImage(clips[k])
            pl == clips[k].placed
        IN AspectDiffers(f) =>
              /\ WiderThanFrame(f) =>
                    pl.new_height = canvas[2] /\ pl.new_width >= canvas[1]
              /\ TallerThanFrame(f) =>
                    pl.new_width = canvas[1] /\ pl.new_height >= canvas[2]

\* C9 as amended: such an image is placed by pad-to-fit: a wider image is
\* scaled to the frame's width, its height staying below the frame's, a
\* taller one is scaled to the frame's height, its width staying below the
\* frame's, so that rows or columns of the padding colour are left.
C9_PadToFit ==
    \A k \in DOMAIN clips :
        LET f == ClipImage(clips[k])
            pl == clips[k].placed
        IN AspectDiffers(f) =>
              /\ WiderThanFrame(f) =>
                    pl.new_width = canvas[1] /\ pl.new_height < canvas[2]
              /\ TallerThanFrame(f) =>
                    pl.new_height = canvas[2] /\ pl.new_width < canvas[1]

\* C9 witness: a wider and a taller image placed in the same slideshow.
C9_Witness ==
    \E j, k \in DOMAIN clips :
        /\ AspectDiffers(ClipImage(clips[j])) /\ WiderThanFrame(ClipImage(clips[j]))
        /\ AspectDiffers(ClipImage(clips[k])) /\ TallerThanFrame(ClipImage(clips[k]))

\* The margins the pasted image leaves in the frame: left, right, top, bottom.
Margins(pl) ==
    [left   |-> pl.paste_x,
     right  |-> canvas[1] - pl.new_width - pl.paste_x,
     top    |-> pl.paste_y,
     bottom |-> canvas[2] - pl.new_height - pl.paste_y]

\* C10: pad-to-fit (aspect difference >= 0.01; below it the image is resized
\* straight to W x H): one side of the resized image equals the frame's, the
\* other is no larger, the image is pasted at a non-negative offset that
\* centres it (the two margins of the padded axis differ by at most 1 pixel)
\* and it is never cropped.
C10_PadToFitCentred ==
    \A k \in DOMAIN clips :
        LET f == ClipImage(clips[k])
            pl == clips[k].placed
            m == Margins(pl)
        IN IF AspectDiffers(f)
           THEN /\ \/ pl.new_width = canvas[1] /\ pl.new_height <= canvas[2]
                   \/ pl.new_height = canvas[2] /\ pl.new_width <= canvas[1]
                /\ pl.paste_x >= 0 /\ pl.paste_y >= 0
                /\ m.left >= 0 /\ m.right >= 0 /\ m.top >= 0 /\ m.bottom >= 0
                /\ Abs(m.left - m.right) <= 1
                /\ Abs(m.top - m.bottom) <= 1
           ELSE /\ pl.new_width = canvas[1] /\ pl.new_height = canvas[2]
                /\ pl.paste_x = 0 /\ pl.paste_y = 0

\* C10 witness: an image at the 0.01 boundary, padded with margins that
\* differ by one pixel.
C10_Witness ==
    \E k \in DOMAIN clips :
        LET f == ClipImage(clips[k])
            m == Margins(clips[k].placed)
        IN /\ 100 * Abs(f.width * canvas[2] - canvas[1] * f.height) = f.height * canvas[2]
           /\ Abs(m.top - m.bottom) = 1

\* True when the last image's content hash is the hash of an image accepted
\* before it.
LastIsExactDuplicate ==
    \E k \in DOMAIN dd_last.details_before :
        dd_last.details_before[k].hash = dd_last.download.content_hash

\* True when the last image has a perceptual hash within distance 5 of that
\* of an image accepted before it.
LastIsVisualDuplicate ==
    /\ dd_last.remote.phash # None
    /\ NearAccepted(PHASH_THRESHOLD)

\* True when the last iteration appended its image to the accepted list.
LastAccepted ==
    /\ Len(confirm_image_details) = Len(dd_last.details_before) + 1
    /\ confirm_image_details[Len(confirm_image_details)].absolute_path =
         dd_last.download.absolute_path

\* C11: a downloaded image that is an exact or a visual duplicate is rejected
\* as that duplicate whatever its size; one that passes both duplicate checks
\* is accepted exactly when its file opens with width >= 400 and height >= 400
\* and is otherwise rejected by the size check; no accepted image is narrower
\* or lower than 400.
C11_SizeCheckAfterHashChecks ==
    dd_last.remote.served
        => /\ LastIsExactDuplicate
                => dd_last.decision = "RejectExactDuplicate" /\ ~LastAccepted
           /\ (~LastIsExactDuplicate /\ LastIsVisualDuplicate)
                => dd_last.decision = "RejectVisualDuplicate" /\ ~LastAccepted
           /\ (~LastIsExactDuplicate /\ ~LastIsVisualDuplicate)
                => /\ LastAccepted <=> (/\ dd_last.remote.opens
                                        /\ dd_last.remote.width >= 400
                                        /\ dd_last.remote.height >= 400)
                   /\ ~LastAccepted => dd_last.decision = "RejectTooSmall"
           /\ \A k \in DOMAIN confirm_image_details :
                 /\ confirm_image_details[k].width >= 400
                 /\ confirm_image_details[k].height >= 400

\* C11 witness: a 400x400 image was accepted, and the last image, 100x100 and
\* a visual duplicate of an accepted one, was rejected as a visual duplicate.
C11_Witness ==
    /\ \E k \in DOMAIN confirm_image_details :
          confirm_image_details[k].width = 400 /\ confirm_image_details[k].height = 400
    /\ dd_last.remote.served
    /\ dd_last.remote.width < 400 /\ dd_last.remote.height < 400
    /\ ~LastIsExactDuplicate /\ LastIsVisualDuplicate
    /\ dd_last.decision = "RejectVisualDuplicate"

\* True of a step whose iteration appended its image to the accepted list.
StepAccepts ==
    Len(confirm_image_details') = Len(confirm_image_details) + 1

\* True of a step that keeps every element of both seen-hash collections:
\* the set only grows and the list is extended at its end.
StepKeepsHashes ==
    /\ downloaded_content_hashes \subseteq downloaded_content_hashes'
    /\ Len(downloaded_phashes') >= Len(downloaded_phashes)
    /\ SubSeq(downloaded_phashes', 1, Len(downloaded_phashes)) = downloaded_phashes

\* C12 as stated: the seen content hashes and the seen perceptual hashes lose
\* no element, are left unchanged by every step that accepts nothing, and
\* every acceptance adds the image's content hash to the set and one element,
\* the image's perceptual hash, to the list.
C12_AcceptanceAddsBothHashes ==
    [][/\ StepKeepsHashes
       /\ ~StepAccepts => UNCHANGED <<downloaded_content_hashes, downloaded_phashes>>
       /\ StepAccepts
            => /\ dd_last'.download.content_hash \notin downloaded_content_hashes
               /\ downloaded_content_hashes' =
                    downloaded_content_hashes \cup {dd_last'.download.content_hash}
               /\ Len(downloaded_phashes') = Len(downloaded_phashes) + 1
               /\ Some(downloaded_phashes'[Len(downloaded_phashes')]) =
                    dd_last'.download.p_hash_obj]_vars

\* C12 amended: as above, except that an acceptance extends the list of
\* perceptual hashes only when the image has one; the acceptance of an image
\* whose perceptual hash could not be computed leaves the list unchanged.
C12_AcceptanceAddsComputedHashes ==
    [][/\ StepKeepsHashes
       /\ ~StepAccepts => UNCHANGED <<downloaded_content_hashes, downloaded_phashes>>
       /\ StepAccepts
            => /\ dd_last'.download.content_hash \notin downloaded_content_hashes
               /\ downloaded_content_hashes' =
                    downloaded_content_hashes \cup {dd_last'.download.content_hash}
               /\ IF dd_last'.download.p_hash_obj = None
                  THEN downloaded_phashes' = downloaded_phashes
                  ELSE downloaded_phashes' =
                         Append(downloaded_phashes, dd_last'.download.p_hash_obj[1])]_vars

\* C12 witness: after two images with perceptual hashes, an image without one
\* was accepted: its content hash joined the set, the list stayed as it was.
C12_Witness ==
    /\ dd_last.decision = "Accept"
    /\ dd_last.download.p_hash_obj = None
    /\ Len(dd_last.phashes_before) = 2
    /\ downloaded_phashes = dd_last.phashes_before
    /\ downloaded_content_hashes =
         dd_last.hashes_before \cup {dd_last.download.content_hash}
    /\ Cardinality(downloaded_content_hashes) = 3

\* True when the image of the j-th URL of the pass is in the accepted list
\* (download_image names the file after the URL's position).
PathAccepted(j) ==
    \E k \in DOMAIN confirm_image_details :
        confirm_image_details[k].absolute_path = j

\* Two served images whose perceptual hashes are within the threshold.
NearDuplicates(a, b) ==
    /\ a.served /\ b.served
    /\ a.phash # None /\ b.phash # None
    /\ Hamming(a.phash[1], b.phash[1]) <= PHASH_THRESHOLD

MeetsSizeFloor(a) == a.served /\ a.opens /\ a.width >= 400 /\ a.height >= 400

AcceptedHashes ==
    { confirm_image_details[k].hash : k \in DOMAIN confirm_image_details }

ImageWithBytes(b) == CHOOSE r \in RemoteImages : r.bytes = b

\* C13 as stated, the pair rule: of two near-duplicate images of a pass that
\* both meet the size floor, the one processed first is accepted and the
\* later one is rejected.
C13_FirstOfPairAccepted ==
    \A j, k \in 1..dd_i :
        (j < k /\ NearDuplicates(dd_served[j], dd_served[k])
           /\ MeetsSizeFloor(dd_served[j]) /\ MeetsSizeFloor(dd_served[k]))
            => PathAccepted(j) /\ ~PathAccepted(k)

\* C13 amended: the seen perceptual hashes are those of the accepted images,
\* in order; an image is accepted exactly when it is served, meets the size
\* floor and no image ACCEPTED earlier in the pass has its bytes or a
\* perceptual hash within the threshold (rejected images never count); so
\* the later of two near-duplicates is rejected whenever the earlier one was
\* accepted; and the input {<<1>>, <<2>>, <<3>>} gives the accepted set
\* {<<1>>, <<3>>} in one order and {<<2>>} in another.
C13_FirstSeenWins ==
    /\ LET with_hash == SelectSeq(confirm_image_details, LAMBDA d : d.phash # None)
       IN downloaded_phashes = [k \in 1..Len(with_hash) |-> with_hash[k].phash[1]]
    /\ \A k \in 1..dd_i :
          PathAccepted(k)
            <=> /\ MeetsSizeFloor(dd_served[k])
                /\ ~\E j \in 1..(k - 1) :
                      /\ PathAccepted(j)
                      /\ \/ dd_served[j].bytes = dd_served[k].bytes
                         \/ NearDuplicates(dd_served[j], dd_served[k])
    /\ \A j, k \in 1..dd_i :
          (j < k /\ NearDuplicates(dd_served[j], dd_served[k]) /\ PathAccepted(j))
            => ~PathAccepted(k)
    /\ dd_served = <<ImageWithBytes(<<1>>), ImageWithBytes(<<2>>), ImageWithBytes(<<3>>)>>
          => AcceptedHashes = {Some(SHA256(<<1>>)), Some(SHA256(<<3>>))}
    /\ dd_served = <<ImageWithBytes(<<2>>), ImageWithBytes(<<1>>), ImageWithBytes(<<3>>)>>
          => AcceptedHashes = {Some(SHA256(<<2>>))}

\* C13 witness: three 800x800 images, the second a near-duplicate of the
\* first and the third a near-duplicate of the second only; the second was
\* rejected and the third, never compared with it, was accepted.
C13_Witness ==
    /\ dd_i = 3
    /\ NearDuplicates(dd_served[1], dd_served[2])
    /\ NearDuplicates(dd_served[2], dd_served[3])
    /\ ~NearDuplicates(dd_served[1], dd_served[3])
    /\ \A k \in 1..3 : MeetsSizeFloor(dd_served[k])
    /\ PathAccepted(1) /\ ~PathAccepted(2) /\ PathAccepted(3)

\* The other processing order of C13's example is reached as well.
C13_OtherOrderReached ==
    /\ dd_served = <<ImageWithBytes(<<2>>), ImageWithBytes(<<1>>), ImageWithBytes(<<3>>)>>
    /\ AcceptedHashes = {Some(SHA256(<<2>>))}

\* True of a step of the caption loop that consumed word number k without
\* failing.
StepConsumes(k) ==
    /\ cap_pc = "loop"
    /\ cap_i = k - 1 /\ cap_i' = k
    /\ cap_pc' # "failed"

\* The own duration (end - start) of word number k.
OwnDuration(k) == word_timestamps[k].end - word_timestamps[k].start

\* C14: a word whose own duration exceeds caption_max_duration_per_segment
\* (2.5 s) forms a caption segment of that word alone, wherever it occurs: the
\* iteration that consumes it appends a clip whose only word it is.
C14_LongWordAlone ==
    [][\A k \in 1..Len(word_timestamps) :
          (StepConsumes(k) /\ OwnDuration(k) > caption_max_duration_per_segment)
            => /\ Len(text_clips_list') = Len(text_clips_list) + 1
               /\ text_clips_list'[Len(text_clips_list')].words =
                    <<word_timestamps[k].word>>]_vars

\* A long word that opens a segment does form a segment of its own.
C14_LongWordFirst ==
    [][\A k \in 1..Len(word_timestamps) :
          (StepConsumes(k) /\ OwnDuration(k) > caption_max_duration_per_segment
             /\ segment_words = <<>>)
            => /\ Len(text_clips_list') = Len(text_clips_list) + 1
               /\ text_clips_list'[Len(text_clips_list')].words =
                    <<word_timestamps[k].word>>]_vars

\* The number of words in the clips before clip k.
RECURSIVE WordsBefore(_)
WordsBefore(k) ==
    IF k = 1 THEN 0 ELSE WordsBefore(k - 1) + Len(text_clips_list[k - 1].words)

\* The positions in word_timestamps of clip k's first and last word.
FirstWord(k) == WordsBefore(k) + 1
LastWord(k) == WordsBefore(k) + Len(text_clips_list[k].words)

\* Up to four words with one space between neighbours, written out.
SpaceJoined(ws) ==
    CASE Len(ws) = 1 -> ws[1]
      [] Len(ws) = 2 -> ws[1] \o " " \o ws[2]
      [] Len(ws) = 3 -> ws[1] \o " " \o ws[2] \o " " \o ws[3]
      [] Len(ws) = 4 -> ws[1] \o " " \o ws[2] \o " " \o ws[3] \o " " \o ws[4]
      [] OTHER -> "?"

\* C15: every caption clip starts at the start of its first word, ends at the
\* end of its last word, holds the words of the transcript from its first to
\* its last in their order, and its text is those words joined by single
\* spaces.
C15_SegmentSpanAndText ==
    \A k \in DOMAIN text_clips_list :
        LET c == text_clips_list[k]
        IN /\ LastWord(k) <= cap_i
           /\ c.start = word_timestamps[FirstWord(k)].start
           /\ c.start + c.duration = word_timestamps[LastWord(k)].end
           /\ c.words = [j \in 1..Len(c.words) |->
                           word_timestamps[WordsBefore(k) + j].word]
           /\ c.text = SpaceJoined(c.words)

\* C15 witness: the loop has ended and its second clip, of three words,
\* starts later than 0.
C15_Witness ==
    /\ cap_pc = "done"
    /\ Len(text_clips_list) >= 2
    /\ Len(text_clips_list[2].words) = 3
    /\ text_clips_list[2].start > 0
    /\ text_clips_list[2].text = "world this rocks"

\* The transcript is time-ordered and non-overlapping: each word starts no
\* earlier than the previous word ends.
WordsInOrder ==
    \A j \in 1..(Len(word_timestamps) - 1) :
        word_timestamps[j + 1].start >= word_timestamps[j].end

\* Each clip starts no earlier than the previous clip ends.
SegmentsInOrder ==
    \A k \in 1..(Len(text_clips_list) - 1) :
        text_clips_list[k + 1].start >=
            text_clips_list[k].start + text_clips_list[k].duration

\* C16: when each word starts no earlier than the previous word ends, each
\* caption clip starts no earlier than the previous clip ends, and starts
\* later than the previous clip started unless that clip has zero length.
C16_SegmentsOrderedNonOverlapping ==
    WordsInOrder
        => /\ SegmentsInOrder
           /\ \A k \in 1..(Len(text_clips_list) - 1) :
                 text_clips_list[k].duration > 0
                    => text_clips_list[k + 1].start > text_clips_list[k].start

\* C16 witness: an ordered transcript with a pause between two words has
\* been cut into three clips, the second starting after the first ended.
C16_Witness ==
    /\ cap_pc = "done"
    /\ WordsInOrder
    /\ \E j \in 1..(Len(word_timestamps) - 1) :
          word_timestamps[j + 1].start > word_timestamps[j].end
    /\ Len(text_clips_list) = 3
    /\ text_clips_list[2].start > text_clips_list[1].start + text_clips_list[1].duration

\* Without the premise the conclusion of C16 fails: words that overlap give
\* clips that overlap.
C16_OrderedWhateverTheInput == SegmentsInOrder

\* C17: every caption clip has a duration greater than 0, whatever the word
\* timings, words whose start equals their end included.
C17_SegmentDurationPositive ==
    \A k \in DOMAIN text_clips_list : text_clips_list[k].duration > 0

\* A clip's duration is never negative on the transcripts considered, and it
\* is 0 only when every word of the clip has start = end at one instant.
C17_ZeroOnlyFromZeroLengthWords ==
    \A k \in DOMAIN text_clips_list :
        /\ text_clips_list[k].duration >= 0
        /\ (text_clips_list[k].duration = 0 /\ WordsInOrder)
              => \A j \in FirstWord(k)..LastWord(k) :
                    word_timestamps[j].end = word_timestamps[j].start

\* C18: every caption clip holds at least 1 and at most
\* caption_max_words_per_segment (4) words, whatever the transcript; the
\* segment being built holds fewer than 4 between iterations.
C18_SegmentWordCount ==
    /\ \A k \in DOMAIN text_clips_list :
          /\ Len(text_clips_list[k].words) >= 1
          /\ Len(text_clips_list[k].words) <= 4
    /\ cap_pc = "loop" => Len(segment_words) < 4

\* C18 witness: five short words gave a clip of four words, closed by the
\* word limit alone, and a clip of one word.
C18_Witness ==
    /\ cap_pc = "done"
    /\ Len(word_timestamps) = 5
    /\ Len(text_clips_list) = 2
    /\ Len(text_clips_list[1].words) = 4
    /\ text_clips_list[1].duration < caption_max_duration_per_segment
    /\ Len(text_clips_list[2].words) = 1

\* The analysis found no valid image (known once step 1 has run).
NoValidImage ==
    /\ ss_pc \notin {"idle", "analyze"}
    /\ Len(valid_image_paths) = 0

\* The total duration has been computed and is <= 0.
NoDuration ==
    /\ total_duration # None
    /\ ~FracLess(<<0, 1>>, total_duration[1])

\* The messages of the two ValueErrors the function raises itself.
ExplicitErrors ==
    {Some("No valid images provided for slideshow."),
     Some("No valid image clips could be created.")}

\* C19: with no valid image or a total duration <= 0 the function never
\* reaches the encoding step, writes no file and, when it has ended, has
\* failed with one of its own explicit errors (a run that ended its
\* placement loop has no clip, so line 996 raises); a run that reaches the
\* encoding step has a total duration > 0 and at least one clip, each of
\* duration > 0, so no empty or zero-length video is written.
C19_FailsOnNoImagesOrNoDuration ==
    /\ (NoValidImage \/ NoDuration)
          => /\ ss_pc \notin {"write", "done"}
             /\ ~output_written
             /\ Len(clips) = 0
             /\ ss_pc = "failed" => ss_error \in ExplicitErrors
    /\ NoValidImage => ss_pc \in {"audio", "failed"}
    /\ (ss_pc \in {"write", "done"} \/ output_written)
          => /\ Len(valid_image_paths) > 0
             /\ FracLess(<<0, 1>>, total_duration[1])
             /\ Len(clips) > 0
             /\ \A k \in DOMAIN clips : FracLess(<<0, 1>>, clips[k].duration)
    /\ ss_pc = "done" => output_written /\ ss_error = None

\* C19 witness: two valid images and an audio clip of 0 s; every iteration
\* of the placement loop was skipped and the function failed with "No valid
\* image clips could be created.", nothing written.
C19_Witness ==
    /\ ss_pc = "failed"
    /\ Len(valid_image_paths) = 2
    /\ NoDuration
    /\ place_i = 2
    /\ \A k \in DOMAIN schedule : schedule[k].outcome = "zero_duration"
    /\ ss_error = Some("No valid image clips could be created.")
    /\ ~output_written

\* The other case of C19 is reached as well: no valid image among three
\* files, failure with "No valid images provided for slideshow.".
C19_NoValidImageReached ==
    /\ ss_pc = "failed"
    /\ Len(image_paths) = 3
    /\ NoValidImage
    /\ ss_error = Some("No valid images provided for slideshow.")
    /\ ~output_written

\* An image that yields a frame: it opens with positive sides, its pixels
\* decode and its resize succeeds on the canvas chosen.
IsUsable(f) ==
    /\ f.opens /\ f.width > 0 /\ f.height > 0
    /\ f.decodes
    /\ PlaceOnCanvas(f.width, f.height, canvas[1], canvas[2]).ok

\* The positions in image_paths of the files that open with positive sides,
\* in increasing order.
OpenablePositions ==
    LET keep == {k \in DOMAIN image_paths :
                    /\ image_paths[k].opens
                    /\ image_paths[k].width > 0 /\ image_paths[k].height > 0}
        Rank(k) == Cardinality({j \in keep : j <= k})
    IN [r \in 1..Cardinality(keep) |-> CHOOSE k \in keep : Rank(k) = r]

\* C20: an image that cannot be opened is left out of the working set, which
\* keeps the others in their original order; an image whose pixels cannot be
\* decoded is skipped by the placement loop, which goes on to the end; the
\* clips are in the order of the working set; and the function fails with
\* one of its own "no image" errors only if no image is usable or, for the
\* second message, the total duration is <= 0.
C20_UndecodableImageDropped ==
    /\ ss_pc \notin {"idle", "analyze"} => valid_image_paths = OpenablePositions
    /\ Len(schedule) = place_i
    /\ \A j, k \in DOMAIN clips : j < k => clips[j].index < clips[k].index
    /\ \A k \in DOMAIN clips :
          /\ schedule[clips[k].index + 1].outcome = "placed"
          /\ IsUsable(image_paths[valid_image_paths[clips[k].index + 1]])
    /\ (ss_pc \in {"write", "done", "failed"} /\ Len(valid_image_paths) > 0)
          => place_i = Len(valid_image_paths)
    /\ ss_error = Some("No valid images provided for slideshow.")
          => \A k \in DOMAIN image_paths : ~IsUsable(image_paths[k])
    /\ ss_error = Some("No valid image clips could be created.")
          => \/ \A k \in DOMAIN image_paths : ~IsUsable(image_paths[k])
             \/ NoDuration
    /\ (ss_pc \in {"write", "done"} \/ ss_error = Some("exception in steps 5 to 9"))
          => \E k \in DOMAIN image_paths : IsUsable(image_paths[k])

\* C20 witness: of three files the first has truncated pixel data and the
\* second is no image; the second was left out of the working set, the first
\* was skipped by the loop, the third was placed and the video written.
C20_Witness ==
    /\ ss_pc = "done"
    /\ Len(image_paths) = 3
    /\ image_paths[1].opens /\ ~image_paths[1].decodes
    /\ ~image_paths[2].opens
    /\ valid_image_paths = <<1, 3>>
    /\ schedule[1].outcome = "open_failed"
    /\ schedule[2].outcome = "placed"
    /\ Len(clips) = 1 /\ clips[1].index = 1

\* The de-duplication loop treats an unreadable file the same way (lines
\* 1247-1254): the image is rejected, the loop goes on, and the route turns
\* back to the form only when no image at all was accepted.
C20_DedupDropsUnreadable ==
    /\ (dd_last.remote.served /\ ~dd_last.remote.opens)
          => /\ dd_last.decision # "Accept"
             /\ confirm_image_details = dd_last.details_before
             /\ dd_i < UrlsToProcess => dd_pc = "loop"
    /\ dd_pc = "redirect" => Len(confirm_image_details) = 0

\* The word timings are missing or empty: no audio, or the transcription
\* returned nothing or failed.
NoWordTimings ==
    /\ ss_pc \notin {"idle", "analyze", "audio"}
    /\ Len(word_timestamps) = 0

\* C21: when the word timings are missing or empty no caption clip is ever
\* created, the caption step ends without an error, and a run that the
\* encoder completes returns success with a video made of the image frames,
\* no caption, and the audio clip when one was supplied; with word timings
\* a completed run has at least one caption.
C21_NoTimingsNoCaptions ==
    /\ NoWordTimings
          => /\ text_clips_list = <<>>
             /\ cap_pc # "failed"
             /\ ss_pc = "done"
                  => /\ final_video # None
                     /\ final_video[1].captions = <<>>
                     /\ final_video[1].frames = clips /\ Len(clips) > 0
                     /\ final_video[1].audio = audio
    /\ (ss_pc = "done" /\ ~NoWordTimings)
          => /\ final_video[1].captions = text_clips_list
             /\ Len(text_clips_list) > 0

\* C21 witness: an audio clip of 10 s for which the transcription returned
\* nothing; the run succeeded with two frames, no caption and the audio.
C21_Witness ==
    /\ ss_pc = "done"
    /\ audio = Some(10)
    /\ transcript_words = <<>>
    /\ NoWordTimings
    /\ Len(final_video[1].frames) = 2
    /\ final_video[1].captions = <<>>
    /\ final_video[1].audio = Some(10)
    /\ output_written

\* The polling has ended without a terminal status: the last answer, if any,
\* was 'created' or 'started'.
StillPending == talk_status \in {Some("created"), Some("started")}

\* What holds in every state of create_d_id_talk, for C22.
C22_PollingSafe ==
    \* between two requests the function sleeps 5 s: the next request is
    \* sent 5 s after a 'created' or 'started' answer arrived
    /\ (talk_pc = "poll" /\ talk_polls > 0)
          => /\ StillPending
             /\ talk_elapsed = talk_answered_at + 5
    \* at most 60 requests, the last one sent before 300 s
    /\ talk_polls <= 60
    /\ talk_pc = "returned"
          => /\ talk_return # None
             \* exactly one of result URL and error
             /\ (talk_return.result_url = None) # (talk_return.error = None)
             \* a result URL only after a 'done' answer
             /\ talk_return.result_url # None
                  => talk_polls > 0 /\ talk_status = Some("done")
             \* the timeout error exactly when 300 s passed with the talk
             \* still pending
             /\ talk_return.error = Some("D-ID video generation timed out.")
                  <=> (talk_polls > 0 /\ StillPending /\ talk_elapsed >= 300)
             \* every other status ends the polling with an error
             /\ (talk_polls > 0 /\ talk_status \notin {Some("done"), Some("created"),
                                                       Some("started")})
                  => talk_return.error # None

\* C22: the polling always terminates: requests are 5 s apart while the
\* status is 'created' or 'started', the timeout error (and no result URL) is
\* returned once 300 s have passed with the talk still pending, a result URL
\* is returned only after a 'done' answer that had one, every other status
\* ends the polling with an error, and the function does return.
C22_PollingTerminates ==
    /\ []C22_PollingSafe
    /\ <>(talk_pc = "returned")

\* C22 witness: sixty requests, all answered at once with 'created' or
\* 'started', then the timeout error at 300 s.
C22_Witness ==
    /\ talk_pc = "returned"
    /\ talk_polls = 60
    /\ talk_elapsed = 300
    /\ StillPending
    /\ talk_return = Error("D-ID video generation timed out.")


\* ---- C23 ----------------------------------------------------------------
\* C23: two requests running in parallel share no mutable working state:
\* each has its own hash collection, and no path is being written by two
\* requests at the same moment (the temporary audio file of the encoder
\* included).  The code gives every encoding the same temporary audio file
\* name, so two encodings in progress write one file: the statement fails.
C23_NoSharedOpenPaths ==
    \A r1 \in DOMAIN req_open : \A r2 \in DOMAIN req_open :
        r1 # r2 => req_open[r1] \cap req_open[r2] = {}


\* ---- C24 ----------------------------------------------------------------
\* C24: when /generate with video_type 'avatar' and a valid avatar file
\* shows the confirmation page, the session's confirm_data holds as
\* uploaded_avatar_relative_path the path under which this request saved
\* the avatar.  The code assigns the local again from the form field
\* uploaded_avatar_path before it writes the session, so the statement fails.
C24_SessionHoldsSavedAvatar ==
    (/\ response.route = "/generate"
     /\ response.status = 200
     /\ last_request.video_type = "avatar"
     /\ last_request.saved_avatar # None)
        => session.confirm_data[1].uploaded_avatar_relative_path = last_request.saved_avatar

\* ---- C25 ----------------------------------------------------------------
\* C25: when /create_video returns after attempting generation (200 or
\* 500), every confirmation image recorded in the session at the start of
\* the request has been deleted from disk.  After a success the session is
\* cleared before the cleanup reads it, so nothing is deleted: the
\* statement fails.
C25_ConfirmImagesDeleted ==
    (/\ response.route = "/create_video"
     /\ response.status \in {200, 500})
        => AbsolutePaths(ConfirmImagesOf(last_request.session_before)) \cap disk_files = {}

\* ---- C26 ----------------------------------------------------------------
\* C26: after a failed /create_video (success false, status 500) the
\* session keys confirm_data and confirm_images hold the values they had
\* before the request.  The finally block pops both keys whatever the
\* outcome, so the statement fails.
C26_FailureKeepsSession ==
    (/\ response.route = "/create_video"
     /\ response.status = 500)
        => session = last_request.session_before

\* ---- C27 ----------------------------------------------------------------
SessionAbsolutePaths == AbsolutePaths(ConfirmImagesOf(last_request.session_before))

SlideshowImages ==
    UNION {{last_request.slideshow_inputs[c][k] : k \in 1..Len(last_request.slideshow_inputs[c])}
              : c \in 1..Len(last_request.slideshow_inputs)}

\* C27: every image path passed to slideshow generation by /create_video is
\* an absolute_path of the session's confirm_images; a selected relative
\* path that is not in that list never reaches the generator; and a
\* 'product' request with no accepted path ends in an error with no call of
\* script, voiceover or video generation.
C27_SlideshowImagesFromSession ==
    response.route = "/create_video" =>
        /\ SlideshowImages \subseteq SessionAbsolutePaths
        /\ \A rel \in last_request.ignored :
              InFolder(CONFIRM_FOLDER, rel) \notin SessionAbsolutePaths
                  => InFolder(CONFIRM_FOLDER, rel) \notin SlideshowImages
        /\ (/\ response.status # 400
            /\ last_request.video_type = "product"
            /\ last_request.selected_absolute_paths = <<>>)
              => /\ response.status = 500
                 /\ last_request.calls = {}
                 /\ last_request.slideshow_inputs = <<>>

\* C27 witness: a slideshow was generated from an accepted image while a
\* selected path naming a file on disk outside the session was ignored.
C27_Witness ==
    /\ response.route = "/create_video"
    /\ response.status = 200
    /\ last_request.video_type = "product"
    /\ SlideshowImages # {}
    /\ \E rel \in last_request.ignored :
          /\ InFolder(CONFIRM_FOLDER, rel) \in disk_files
          /\ InFolder(CONFIRM_FOLDER, rel) \notin SessionAbsolutePaths

\* C27, second case: a 'product' request whose only selected path is not of
\* the session is answered with the error.
C27_NothingAcceptedReached ==
    /\ response.route = "/create_video"
    /\ response.status = 500
    /\ last_request.video_type = "product"
    /\ last_request.ignored # {}
    /\ last_request.selected_absolute_paths = <<>>
    /\ last_request.calls = {}

\* ---- C28 ----------------------------------------------------------------
\* C28: whenever /create_video answers success with a video_url, the file
\* the URL names is on disk after the cleanup.
C28_VideoUrlFileExists ==
    (/\ response.route = "/create_video"
     /\ response.success
     /\ response.video_url # None)
        => response.video_url[1] \in disk_files

\* C28 witness: compositing failed and the downloaded talk was returned as
\* the final video.
C28_Witness ==
    /\ response.route = "/create_video"
    /\ response.success
    /\ response.video_url # None
    /\ response.video_url[1].prefix = "temp"
    /\ response.video_url[1] \in disk_files

\* C28, other cases: the composited video and the product slideshow.
C28_CompositeReached ==
    /\ response.route = "/create_video"
    /\ response.success
    /\ response.video_url # None
    /\ response.video_url[1].prefix = "final_avatar"


\* ---- C29 ----------------------------------------------------------------
\* C29: at every point of a de-duplication pass the accepted list is
\* duplicate free (no two accepted images have the same content hash, and
\* any two with perceptual hashes are more than PHASH_THRESHOLD bits apart),
\* every accepted image is at least 400 x 400, the accepted images are in
\* the order in which their URLs were processed, and at most
\* MAX_PRODUCT_IMAGES URLs are processed.
C29_AcceptedListInvariants ==
    /\ \A a \in DOMAIN confirm_image_details : \A b \in DOMAIN confirm_image_details :
          a < b =>
            /\ confirm_image_details[a].hash # confirm_image_details[b].hash
            /\ (/\ confirm_image_details[a].phash # None
                /\ confirm_image_details[b].phash # None)
                  => Hamming(confirm_image_details[a].phash[1],
                             confirm_image_details[b].phash[1]) > PHASH_THRESHOLD
            /\ confirm_image_details[a].absolute_path < confirm_image_details[b].absolute_path
    /\ \A a \in DOMAIN confirm_image_details :
          /\ confirm_image_details[a].width >= min_dimension
          /\ confirm_image_details[a].height >= min_dimension
    /\ dd_i <= MAX_PRODUCT_IMAGES
    /\ Len(dd_served) <= MAX_PRODUCT_IMAGES

\* C29 witness: a page with more URLs than the limit; the pass ended after
\* MAX_PRODUCT_IMAGES of them with two images accepted.
C29_Witness ==
    /\ dd_pc = "confirm"
    /\ num_urls > MAX_PRODUCT_IMAGES
    /\ dd_i = MAX_PRODUCT_IMAGES
    /\ Len(confirm_image_details) = 2

\* C29, short lists: a pass over four URLs that accepted three images and
\* rejected one.
C29_ShortListReached ==
    /\ dd_pc = "confirm"
    /\ num_urls = 4
    /\ dd_i = 4
    /\ Len(confirm_image_details) = 3


\* ---- C30 ----------------------------------------------------------------
\* the words of the first k caption clips, one after the other
RECURSIVE SegmentWordsUpTo(_)
SegmentWordsUpTo(k) ==
    IF k = 0 THEN <<>>
    ELSE SegmentWordsUpTo(k - 1) \o text_clips_list[k].words

InputWords == [k \in 1..Len(word_timestamps) |-> word_timestamps[k].word]

\* C30: when caption creation completes, the words of all segments, in
\* segment order, are the input word sequence: no word is lost, duplicated
\* or reordered, also when a segment was built on the fallback path.
C30_SegmentsPartitionInput ==
    cap_pc = "done" => SegmentWordsUpTo(Len(text_clips_list)) = InputWords

\* C30 witness: a transcript of five words was cut into two segments, the
\* first of them built on the fallback path.
C30_Witness ==
    /\ cap_pc = "done"
    /\ Len(word_timestamps) = 5
    /\ Len(text_clips_list) = 2
    /\ text_clips_list[1].fallback
    /\ SegmentWordsUpTo(2) = InputWords

====
